---- MODULE Spec2Model ----
(***************************************************************************)
(* The bytecode virtual machine of runtime/vm.go: the VM struct, NewVM,    *)
(* Abort and the dispatch loop of Run, one action per opcode case.          *)
(*                                                                         *)
(* Pointers to objects.Object are addresses into `heap`; 0 is the nil       *)
(* pointer.  The operand stack, the globals and the free-variable lists     *)
(* hold addresses, so two handles can name one cell, as in the source.      *)
(* Instructions are byte sequences; Go index k is element k+1 here.         *)
(* The capacities StackSize, GlobalsSize and MaxFrames (2048, 1024 and 1024 *)
(* in the source) are scaled down so that both limits are reached within a  *)
(* few calls; no action depends on their values beyond the comparisons the  *)
(* source makes.                                                            *)
(***************************************************************************)
EXTENDS Integers, Sequences, FiniteSets, TLC

\* ------------------------------------------------------------ constants
\* StackSize, GlobalsSize, MaxFrames: 2048, 1024, 1024 in the source
StackSize == 16
GlobalsSize == 4
MaxFrames == 5

\* Opcode bytes (one enumeration shared by compiler and VM).
OpConstant == 0
OpNull == 1
OpAdd == 2
OpSub == 3
OpEqual == 4
OpPop == 5
OpTrue == 6
OpFalse == 7
OpJumpFalsy == 8
OpJump == 9
OpSetGlobal == 10
OpGetGlobal == 11
OpCall == 12
OpReturnValue == 13
OpReturn == 14
OpDefineLocal == 15
OpSetLocal == 16
OpGetLocal == 17
OpClosure == 18
OpGetFree == 19
OpSetFree == 20
OpAndJump == 21
OpOrJump == 22
OpArray == 23
OpMap == 24
OpImmutable == 25
OpIndex == 26
OpSliceIndex == 27
OpSetSelGlobal == 28
OpSetSelLocal == 29
OpSetSelFree == 30
OpGetBuiltinModule == 31

\* ------------------------------------------------------------ bounds
\* Depth of the tail recursion of ProgTailDeep: more than MaxFrames.
TailDepth == MaxFrames + 2
\* Instructions counted after an Abort request before the count saturates.
MaxAfterAbort == 2
\* Length of the sequences that the slicing programs slice.
MaxLen == 2
\* Number of times the host calls Run on one VM.
MaxRuns == 2

\* ------------------------------------------------------------ values
\* objects.Object values: one record shape for every variant.
\*   t: variant, n: Int value / Bool (1, 0) / function id, free: captured handles
UndefinedValue == [t |-> "undefined", n |-> 0, free |-> <<>>]
TrueValue == [t |-> "bool", n |-> 1, free |-> <<>>]
FalseValue == [t |-> "bool", n |-> 0, free |-> <<>>]
IntV(i) == [t |-> "int", n |-> i, free |-> <<>>]
\* *objects.CompiledFunction: identified by its index in the program's fns
FnV(id) == [t |-> "compiled-function", n |-> id, free |-> <<>>]
\* *objects.Closure{Fn, Free}
ClosureV(id, fr) == [t |-> "closure", n |-> id, free |-> fr]

\* *objects.String: Value as a sequence of one-character strings
StringV(s) == [t |-> "string", s |-> s]
\* *objects.Char
CharV(c) == [t |-> "char", c |-> c]
\* *objects.Array{Value}: Value is a Go slice, i.e. a window (off, len) on the
\* backing array stored in the heap cell at address arr
ArrayV(arr, off, len) == [t |-> "array", arr |-> arr, off |-> off, len |-> len]
\* *objects.ImmutableArray{Value}
ImmutableArrayV(arr, off, len) ==
    [t |-> "immutable-array", arr |-> arr, off |-> off, len |-> len]
\* *objects.Map{Value}: Value is a Go map, a reference to the map stored in
\* the heap cell at address m
MapV(m) == [t |-> "map", m |-> m]
\* *objects.ImmutableMap{Value}
ImmutableMapV(m) == [t |-> "immutable-map", m |-> m]
\* the storage behind a Go slice / a Go map (heap cells that no handle names)
BackingV(elems) == [t |-> "backing", elems |-> elems]
GoMapV(kv) == [t |-> "go-map", kv |-> kv]

NilPtr == 0
TruePtr == 1
FalsePtr == 2
UndefinedPtr == 3
\* &v.constants[cidx]: the constants pool lives in the heap after the singletons
ConstPtr(cidx) == 4 + cidx

\* objects.Object.BinaryOp for token.Add / token.Sub (Int operands only here)
BinaryOpOk(l, r) == l.t = "int" /\ r.t = "int"
BinaryOpAdd(l, r) == IntV(l.n + r.n)
BinaryOpSub(l, r) == IntV(l.n - r.n)
\* objects.Object.Equals
Equals(l, r) == l.t = r.t /\ l.n = r.n /\ l.free = r.free
\* objects.Object.IsFalsy
IsFalsy(v) ==
    \/ v.t = "undefined"
    \/ (v.t = "bool" /\ v.n = 0)
    \/ (v.t = "int" /\ v.n = 0)

\* ------------------------------------------------------------ programs
\* A compiled function: Instructions, NumParameters, NumLocals.
Fn(insts, np, nl) == [insts |-> insts, np |-> np, nl |-> nl]
\* A bytecode artifact: MainFunction, Constants, compiled functions by id.
Bytecode(name, main, consts, fns) ==
    [name |-> name, main |-> main, consts |-> consts, fns |-> fns]

\* mk := func(x) { return func() { x = x + 1; return x } }
\* c := mk(10); a := c(); b := c()
ProgCounter ==
    Bytecode("counter",
        << OpConstant, 0, 1,  OpSetGlobal, 0, 0,
           OpGetGlobal, 0, 0,  OpConstant, 0, 2,  OpCall, 1,  OpSetGlobal, 0, 1,
           OpGetGlobal, 0, 1,  OpCall, 0,  OpSetGlobal, 0, 2,
           OpGetGlobal, 0, 1,  OpCall, 0,  OpSetGlobal, 0, 3 >>,
        << FnV(1), FnV(2), IntV(10), IntV(1) >>,
        << Fn(<< OpGetFree, 0,  OpConstant, 0, 3,  OpAdd,  OpSetFree, 0,
                 OpGetFree, 0,  OpReturnValue >>, 0, 0),
           Fn(<< OpGetLocal, 0,  OpClosure, 0, 0, 1,  OpReturnValue >>, 1, 1) >>)

\* g := func() { x := 10; z := x; inc := func() { x = x + 1 }
\*               inc(); a := x; x = 20; inc(); return x }
\* r := g()
ProgShared ==
    Bytecode("shared",
        << OpConstant, 0, 1,  OpSetGlobal, 0, 0,
           OpGetGlobal, 0, 0,  OpCall, 0,  OpSetGlobal, 0, 1 >>,
        << FnV(1), FnV(2), IntV(10), IntV(1), IntV(20) >>,
        << Fn(<< OpGetFree, 0,  OpConstant, 0, 3,  OpAdd,  OpSetFree, 0,
                 OpReturn >>, 0, 0),
           Fn(<< OpConstant, 0, 2,  OpDefineLocal, 0,       \*  0: x := 10
                 OpGetLocal, 0,  OpDefineLocal, 1,          \*  5: z := x
                 OpGetLocal, 0,  OpClosure, 0, 0, 1,
                 OpDefineLocal, 2,                          \*  9: inc := func...
                 OpGetLocal, 2,  OpCall, 0,  OpPop,         \* 17: inc()
                 OpGetLocal, 0,  OpDefineLocal, 3,          \* 22: a := x
                 OpConstant, 0, 4,  OpSetLocal, 0,          \* 26: x = 20
                 OpGetLocal, 2,  OpCall, 0,  OpPop,         \* 31: inc()
                 OpGetLocal, 0,  OpReturnValue >>, 0, 4) >>)

\* f := func(n, c) { y := n; if n == 0 { return c() }
\*                   return f(n - 1, func() { return y }) }
\* r := f(1, undefined)
ProgRebind ==
    Bytecode("rebind",
        << OpConstant, 0, 1,  OpSetGlobal, 0, 0,
           OpGetGlobal, 0, 0,  OpConstant, 0, 3,  OpNull,  OpCall, 2,
           OpSetGlobal, 0, 1 >>,
        << FnV(1), FnV(2), IntV(0), IntV(1) >>,
        << Fn(<< OpGetFree, 0,  OpReturnValue >>, 0, 0),
           Fn(<< OpGetLocal, 0,  OpDefineLocal, 2,          \*  0: y := n
                 OpGetLocal, 0,  OpConstant, 0, 2,  OpEqual,
                 OpJumpFalsy, 0, 18,                        \*  4: if n == 0
                 OpGetLocal, 1,  OpCall, 0,  OpReturnValue, \* 13: return c()
                 OpGetGlobal, 0, 0,                         \* 18: f
                 OpGetLocal, 0,  OpConstant, 0, 3,  OpSub,  \* 21: n - 1
                 OpGetLocal, 2,  OpClosure, 0, 0, 1,        \* 27: func() {..y..}
                 OpCall, 2,  OpReturnValue >>, 2, 3) >>)

\* outer := func(k) { step := func(self, n) { if n == 0 { return k }
\*                                            return self(self, n - 1) }
\*                    return step(step, 2) }
\* r := outer(7)
ProgClosureTail ==
    Bytecode("closuretail",
        << OpConstant, 0, 1,  OpSetGlobal, 0, 0,
           OpGetGlobal, 0, 0,  OpConstant, 0, 5,  OpCall, 1,  OpSetGlobal, 0, 1 >>,
        << FnV(1), FnV(2), IntV(0), IntV(1), IntV(2), IntV(7) >>,
        << Fn(<< OpGetLocal, 1,  OpConstant, 0, 2,  OpEqual,
                 OpJumpFalsy, 0, 12,                        \*  0: if n == 0
                 OpGetFree, 0,  OpReturnValue,              \*  9: return k
                 OpGetLocal, 0,  OpGetLocal, 0,             \* 12: self(self,
                 OpGetLocal, 1,  OpConstant, 0, 3,  OpSub,  \* 16:   n - 1)
                 OpCall, 2,  OpReturnValue >>, 2, 2),
           Fn(<< OpGetLocal, 0,  OpClosure, 0, 0, 1,  OpDefineLocal, 1,
                 OpGetLocal, 1,  OpGetLocal, 1,  OpConstant, 0, 4,
                 OpCall, 2,  OpReturnValue >>, 1, 2) >>)

\* f := func(n) { if n == 0 { return 0 }; return f(n - 1) }
\* r := f(TailDepth)
ProgTailDeep ==
    Bytecode("taildeep",
        << OpConstant, 0, 0,  OpSetGlobal, 0, 0,
           OpGetGlobal, 0, 0,  OpConstant, 0, 3,  OpCall, 1,  OpSetGlobal, 0, 1 >>,
        << FnV(1), IntV(0), IntV(1), IntV(TailDepth) >>,
        << Fn(<< OpGetLocal, 0,  OpConstant, 0, 1,  OpEqual,
                 OpJumpFalsy, 0, 13,                        \*  0: if n == 0
                 OpConstant, 0, 1,  OpReturnValue,          \*  9: return 0
                 OpGetGlobal, 0, 0,                         \* 13: f
                 OpGetLocal, 0,  OpConstant, 0, 2,  OpSub,  \* 16: n - 1
                 OpCall, 1,  OpReturnValue >>, 1, 1) >>)

\* f := func() { a := 1; b := a; c := b; return a + f() }
\* f()
ProgDeepLocals ==
    Bytecode("deeplocals",
        << OpConstant, 0, 0,  OpSetGlobal, 0, 0,
           OpGetGlobal, 0, 0,  OpCall, 0,  OpPop >>,
        << FnV(1), IntV(1) >>,
        << Fn(<< OpConstant, 0, 1,  OpDefineLocal, 0,
                 OpGetLocal, 0,  OpDefineLocal, 1,
                 OpGetLocal, 1,  OpDefineLocal, 2,
                 OpGetLocal, 0,  OpGetGlobal, 0, 0,  OpCall, 0,  OpAdd,
                 OpReturnValue >>, 0, 3) >>)

\* f := func() { f(); f() }
\* f()
ProgDeepFrames ==
    Bytecode("deepframes",
        << OpConstant, 0, 0,  OpSetGlobal, 0, 0,
           OpGetGlobal, 0, 0,  OpCall, 0,  OpPop >>,
        << FnV(1) >>,
        << Fn(<< OpGetGlobal, 0, 0,  OpCall, 0,  OpPop,
                 OpGetGlobal, 0, 0,  OpCall, 0,  OpPop,  OpReturn >>, 0, 0) >>)

\* for { a = false }
ProgSpin ==
    Bytecode("spin",
        << OpFalse,  OpSetGlobal, 0, 0,  OpJump, 0, 0 >>,
        << >>,
        << >>)

\* hand-assembled: a main function that leaves one operand on the stack
ProgLeftover ==
    Bytecode("leftover", << OpTrue >>, << >>, << >>)

\* hand-assembled: f has one parameter and a second local that it reads
\* before any OpDefineLocal; main leaves the handle of the constant 7 in the
\* stack position that becomes that local
\*   f := <closure of fn 1>;  r := f(5)
ProgStaleLocal ==
    Bytecode("stalelocal",
        << OpClosure, 0, 0, 0,  OpSetGlobal, 0, 0,
           OpGetGlobal, 0, 0,  OpConstant, 0, 2,
           OpConstant, 0, 1,  OpPop,
           OpCall, 1,  OpSetGlobal, 0, 1 >>,
        << FnV(1), IntV(7), IntV(5) >>,
        << Fn(<< OpGetLocal, 1,  OpReturnValue >>, 1, 2) >>)

\* a := 0 && 5; b := 3 && 5; c := 0 || 5; d := 3 || 5
ProgAndOr ==
    Bytecode("andor",
        << OpConstant, 0, 0,  OpAndJump, 0, 9,  OpConstant, 0, 2,   \*  0
           OpSetGlobal, 0, 0,                                       \*  9
           OpConstant, 0, 1,  OpAndJump, 0, 21,  OpConstant, 0, 2,  \* 12
           OpSetGlobal, 0, 1,                                       \* 21
           OpConstant, 0, 0,  OpOrJump, 0, 33,  OpConstant, 0, 2,   \* 24
           OpSetGlobal, 0, 2,                                       \* 33
           OpConstant, 0, 1,  OpOrJump, 0, 45,  OpConstant, 0, 2,   \* 36
           OpSetGlobal, 0, 3 >>,                                    \* 45
        << IntV(0), IntV(3), IntV(5) >>,
        << >>)

\* m := {a: {b: [1, 2]}}; m.a.b[1] = 7; r := m.a.b[1]; m.x = 7; m.x[0] = 7
ProgSelChain ==
    Bytecode("selchain",
        << OpConstant, 0, 0,  OpConstant, 0, 1,
           OpConstant, 0, 2,  OpConstant, 0, 3,  OpArray, 0, 2,
           OpMap, 0, 2,  OpMap, 0, 2,  OpSetGlobal, 0, 0,           \*  0
           OpConstant, 0, 4,  OpConstant, 0, 2,  OpConstant, 0, 1,
           OpConstant, 0, 0,  OpSetSelGlobal, 0, 0, 3,              \* 24
           OpGetGlobal, 0, 0,  OpConstant, 0, 0,  OpIndex,
           OpConstant, 0, 1,  OpIndex,  OpConstant, 0, 2,  OpIndex,
           OpSetGlobal, 0, 1,                                       \* 40
           OpConstant, 0, 4,  OpConstant, 0, 5,
           OpSetSelGlobal, 0, 0, 1,                                 \* 58
           OpConstant, 0, 4,  OpConstant, 0, 6,  OpConstant, 0, 5,
           OpSetSelGlobal, 0, 0, 2 >>,                              \* 68
        << StringV(<< "a" >>), StringV(<< "b" >>), IntV(1), IntV(2), IntV(7),
           StringV(<< "x" >>), IntV(0) >>,
        << >>)

\* m := {a: 1}; m.a.a.a = 7
ProgSelNotIndexable ==
    Bytecode("selnotindexable",
        << OpConstant, 0, 0,  OpConstant, 0, 1,  OpMap, 0, 2,
           OpSetGlobal, 0, 0,
           OpConstant, 0, 2,  OpConstant, 0, 0,  OpConstant, 0, 0,
           OpConstant, 0, 0,  OpSetSelGlobal, 0, 0, 3 >>,
        << StringV(<< "a" >>), IntV(1), IntV(7) >>,
        << >>)

\* f := func() { l := [[1, 2]]; l[0][0] = 3
\*               g := func() { l[0][1] = 4 }; g(); return l[0][1] }
\* r := f()
ProgSelLocal ==
    Bytecode("sellocal",
        << OpConstant, 0, 1,  OpSetGlobal, 0, 0,
           OpGetGlobal, 0, 0,  OpCall, 0,  OpSetGlobal, 0, 1 >>,
        << FnV(1), FnV(2), IntV(0), IntV(1), IntV(2), IntV(3), IntV(4) >>,
        << Fn(<< OpConstant, 0, 6,  OpConstant, 0, 3,  OpConstant, 0, 2,
                 OpSetSelFree, 0, 2,  OpReturn >>, 0, 0),
           Fn(<< OpConstant, 0, 3,  OpConstant, 0, 4,  OpArray, 0, 2,
                 OpArray, 0, 1,  OpDefineLocal, 0,          \*  0: l := [[1, 2]]
                 OpConstant, 0, 5,  OpConstant, 0, 2,  OpConstant, 0, 2,
                 OpSetSelLocal, 0, 2,                       \* 14: l[0][0] = 3
                 OpGetLocal, 0,  OpClosure, 0, 0, 1,
                 OpDefineLocal, 1,                          \* 26: g := func...
                 OpGetLocal, 1,  OpCall, 0,  OpPop,         \* 34: g()
                 OpGetLocal, 0,  OpConstant, 0, 2,  OpIndex,
                 OpConstant, 0, 3,  OpIndex,  OpReturnValue >>, 0, 2) >>)

\* s := "hello"; a := s[2:100]; b := s[-5:2]; c := s[:]
ProgHello ==
    Bytecode("hello",
        << OpConstant, 0, 0,  OpSetGlobal, 0, 0,
           OpGetGlobal, 0, 0,  OpConstant, 0, 1,  OpConstant, 0, 2,
           OpSliceIndex,  OpSetGlobal, 0, 1,
           OpGetGlobal, 0, 0,  OpConstant, 0, 3,  OpConstant, 0, 1,
           OpSliceIndex,  OpSetGlobal, 0, 2,
           OpGetGlobal, 0, 0,  OpNull,  OpNull,
           OpSliceIndex,  OpSetGlobal, 0, 3 >>,
        << StringV(<< "h", "e", "l", "l", "o" >>), IntV(2), IntV(100), IntV(-5) >>,
        << >>)

\* the constants 1 .. MaxLen pushed in order, the first at constant index base
PushInts(base) ==
    [j \in 1 .. 3 * MaxLen |->
        IF j % 3 = 1 THEN OpConstant
        ELSE IF j % 3 = 2 THEN 0 ELSE base + (j - 1) \div 3]
Ints == [j \in 1 .. MaxLen |-> IntV(j)]
Chars == << "a", "b", "c", "d", "e", "f" >>

\* a slice operand: an Int constant, nothing (the compiler emits OpNull), or a
\* value that is neither
SliceBounds ==
    { [k |-> "int", n |-> i] : i \in -(MaxLen + 1) .. MaxLen + 1 }
        \cup { [k |-> "none", n |-> 0], [k |-> "bool", n |-> 0] }
SliceArg(b, cidx) ==
    IF b.k = "none" THEN << OpNull >>
    ELSE IF b.k = "bool" THEN << OpTrue >>
    ELSE << OpConstant, 0, cidx >>
SliceConst(b) == IntV(b.n)
SliceKinds == {"array", "immutable-array", "string", "int"}
SliceLeft(kind) ==
    IF kind = "string" THEN << OpConstant, 0, 0 >>
    ELSE IF kind = "int" THEN << OpConstant, 0, 3 >>
    ELSE IF kind = "array" THEN PushInts(3) \o << OpArray, 0, MaxLen >>
    ELSE PushInts(3) \o << OpArray, 0, MaxLen,  OpImmutable >>

\* r := x[lo:hi] for x of the given kind and length MaxLen
ProgSlice(kind, lo, hi) ==
    Bytecode("slice",
        SliceLeft(kind) \o SliceArg(lo, 1) \o SliceArg(hi, 2)
            \o << OpSliceIndex,  OpSetGlobal, 0, 0 >>,
        << StringV(SubSeq(Chars, 1, MaxLen)), SliceConst(lo), SliceConst(hi) >>
            \o Ints,
        << >>)

\* a := [1, ..., MaxLen]; r := a[i:MaxLen]; l := a[0:i]
ProgSplit(i) ==
    Bytecode("split",
        PushInts(2) \o
        << OpArray, 0, MaxLen,  OpSetGlobal, 0, 0,
           OpGetGlobal, 0, 0,  OpConstant, 0, 0,  OpConstant, 0, MaxLen + 1,
           OpSliceIndex,  OpSetGlobal, 0, 1,
           OpGetGlobal, 0, 0,  OpConstant, 0, 1,  OpConstant, 0, 0,
           OpSliceIndex,  OpSetGlobal, 0, 2 >>,
        << IntV(i), IntV(0) >> \o Ints,
        << >>)

\* a := [1, 2]; b := immutable(a); c := b[0:2]; c[1] = 9; a[0] = 5; r := b[0]
ProgImmutable ==
    Bytecode("immutable",
        << OpConstant, 0, 1,  OpConstant, 0, 2,  OpArray, 0, 2,
           OpSetGlobal, 0, 0,                                       \*  0
           OpGetGlobal, 0, 0,  OpImmutable,  OpSetGlobal, 0, 1,     \* 12
           OpGetGlobal, 0, 1,  OpConstant, 0, 0,  OpConstant, 0, 2,
           OpSliceIndex,  OpSetGlobal, 0, 2,                        \* 19
           OpConstant, 0, 4,  OpConstant, 0, 1,
           OpSetSelGlobal, 0, 2, 1,                                 \* 32
           OpConstant, 0, 3,  OpConstant, 0, 0,
           OpSetSelGlobal, 0, 0, 1,                                 \* 42
           OpGetGlobal, 0, 1,  OpConstant, 0, 0,  OpIndex,
           OpSetGlobal, 0, 3 >>,                                    \* 52
        << IntV(0), IntV(1), IntV(2), IntV(5), IntV(9) >>,
        << >>)

\* m := {a: 1}; im := immutable(m); m.a = 2; m.b = 3; r := im.a
ProgImmutableMap ==
    Bytecode("immutablemap",
        << OpConstant, 0, 0,  OpConstant, 0, 2,  OpMap, 0, 2,
           OpSetGlobal, 0, 0,
           OpGetGlobal, 0, 0,  OpImmutable,  OpSetGlobal, 0, 1,
           OpConstant, 0, 3,  OpConstant, 0, 0,  OpSetSelGlobal, 0, 0, 1,
           OpConstant, 0, 4,  OpConstant, 0, 1,  OpSetSelGlobal, 0, 0, 1,
           OpGetGlobal, 0, 1,  OpConstant, 0, 0,  OpIndex,
           OpSetGlobal, 0, 2 >>,
        << StringV(<< "a" >>), StringV(<< "b" >>), IntV(1), IntV(2), IntV(3) >>,
        << >>)

\* math := import("math"); p := math.pi; import("no")
\* (the second module is known to the compiler and not to the VM's registry)
ProgImport ==
    Bytecode("import",
        << OpConstant, 0, 0,  OpGetBuiltinModule,  OpSetGlobal, 0, 0,  \*  0
           OpGetGlobal, 0, 0,  OpConstant, 0, 1,  OpIndex,
           OpSetGlobal, 0, 1,                                          \*  7
           OpConstant, 0, 2,  OpGetBuiltinModule,  OpPop >>,           \* 17
        << StringV(<< "m", "a", "t", "h" >>), StringV(<< "p", "i" >>),
           StringV(<< "n", "o" >>) >>,
        << >>)

\* hand-assembled: reads a global slot that no instruction has written
ProgUnsetGlobal ==
    Bytecode("unsetglobal",
        << OpGetGlobal, 0, 1,  OpSetGlobal, 0, 0,
           OpGetGlobal, 0, 0,  OpGetGlobal, 0, 0,  OpEqual,  OpPop >>,
        << >>,
        << >>)

\* f := func(n) { if n == 0 { return 5 }; f(n - 1) }
\* r := f(1)
ProgTailDiscard ==
    Bytecode("taildiscard",
        << OpConstant, 0, 0,  OpSetGlobal, 0, 0,
           OpGetGlobal, 0, 0,  OpConstant, 0, 2,  OpCall, 1,  OpSetGlobal, 0, 1 >>,
        << FnV(1), IntV(0), IntV(1), IntV(5) >>,
        << Fn(<< OpGetLocal, 0,  OpConstant, 0, 1,  OpEqual,
                 OpJumpFalsy, 0, 13,                        \*  0: if n == 0
                 OpConstant, 0, 3,  OpReturnValue,          \*  9: return 5
                 OpGetGlobal, 0, 0,                         \* 13: f
                 OpGetLocal, 0,  OpConstant, 0, 2,  OpSub,  \* 16: n - 1
                 OpCall, 1,  OpPop,  OpReturn >>, 1, 1) >>)

\* mk := func(k) { return func(g, n) { if n == 0 { return k }
\*                                     return g(g, 0) } }
\* a := mk(1); b := mk(2); r := a(b, 1)
ProgTailFree ==
    Bytecode("tailfree",
        << OpConstant, 0, 1,  OpSetGlobal, 0, 0,
           OpGetGlobal, 0, 0,  OpConstant, 0, 3,  OpCall, 1,  OpSetGlobal, 0, 1,
           OpGetGlobal, 0, 0,  OpConstant, 0, 4,  OpCall, 1,  OpSetGlobal, 0, 2,
           OpGetGlobal, 0, 1,  OpGetGlobal, 0, 2,  OpConstant, 0, 3,
           OpCall, 2,  OpSetGlobal, 0, 3 >>,
        << FnV(1), FnV(2), IntV(0), IntV(1), IntV(2) >>,
        << Fn(<< OpGetLocal, 1,  OpConstant, 0, 2,  OpEqual,
                 OpJumpFalsy, 0, 12,                        \*  0: if n == 0
                 OpGetFree, 0,  OpReturnValue,              \*  9: return k
                 OpGetLocal, 0,  OpGetLocal, 0,
                 OpConstant, 0, 2,                          \* 12: g(g, 0)
                 OpCall, 2,  OpReturnValue >>, 2, 2),
           Fn(<< OpGetLocal, 0,  OpClosure, 0, 0, 1,  OpReturnValue >>, 1, 1) >>)

\* set := func(x) { x = 5 }; a := 1; set(a)
\* h := func() { b := 2; set(b); return b }; r := h(); set(true)
ProgParamAssign ==
    Bytecode("paramassign",
        << OpConstant, 0, 0,  OpSetGlobal, 0, 0,                    \*  0
           OpConstant, 0, 2,  OpSetGlobal, 0, 1,                    \*  6
           OpGetGlobal, 0, 0,  OpGetGlobal, 0, 1,  OpCall, 1,
           OpPop,                                                   \* 12
           OpConstant, 0, 1,  OpSetGlobal, 0, 2,                    \* 21
           OpGetGlobal, 0, 2,  OpCall, 0,  OpSetGlobal, 0, 3,       \* 27
           OpGetGlobal, 0, 0,  OpTrue,  OpCall, 1,  OpPop >>,       \* 35
        << FnV(1), FnV(2), IntV(1), IntV(2), IntV(5) >>,
        << Fn(<< OpConstant, 0, 4,  OpSetLocal, 0,  OpReturn >>, 1, 1),
           Fn(<< OpConstant, 0, 3,  OpDefineLocal, 0,
                 OpGetGlobal, 0, 0,  OpGetLocal, 0,  OpCall, 1,  OpPop,
                 OpGetLocal, 0,  OpReturnValue >>, 0, 1) >>)

\* m := {a: 1, b: 2, a: 3}; r := m.a
ProgMapDup ==
    Bytecode("mapdup",
        << OpConstant, 0, 0,  OpConstant, 0, 2,
           OpConstant, 0, 1,  OpConstant, 0, 3,
           OpConstant, 0, 0,  OpConstant, 0, 4,
           OpMap, 0, 6,  OpSetGlobal, 0, 0,
           OpGetGlobal, 0, 0,  OpConstant, 0, 0,  OpIndex,
           OpSetGlobal, 0, 1 >>,
        << StringV(<< "a" >>), StringV(<< "b" >>), IntV(1), IntV(2), IntV(3) >>,
        << >>)

\* f := func() { 1[:] }; f()
ProgSliceInFn ==
    Bytecode("sliceinfn",
        << OpConstant, 0, 0,  OpSetGlobal, 0, 0,
           OpGetGlobal, 0, 0,  OpCall, 0,  OpPop >>,
        << FnV(1), IntV(1) >>,
        << Fn(<< OpConstant, 0, 1,  OpNull,  OpNull,  OpSliceIndex,  OpPop,
                 OpReturn >>, 0, 0) >>)

Programs ==
    { ProgCounter, ProgShared, ProgRebind, ProgClosureTail, ProgTailDeep,
      ProgDeepLocals, ProgDeepFrames, ProgSpin, ProgLeftover, ProgStaleLocal,
      ProgAndOr, ProgSelChain, ProgSelNotIndexable, ProgSelLocal, ProgHello,
      ProgImmutable, ProgImmutableMap, ProgImport, ProgUnsetGlobal,
      ProgSliceInFn,
      ProgMapDup,
      ProgParamAssign,
      ProgTailFree,
      ProgTailDiscard }
    \cup { ProgSlice(kind, lo, hi) :
               kind \in SliceKinds, lo \in SliceBounds, hi \in SliceBounds }
    \cup { ProgSplit(i) : i \in -MaxLen .. MaxLen }


\* ------------------------------------------------------------ state
VARIABLES
    prog,         \* the bytecode artifact given to NewVM
    heap,         \* address -> objects.Object (the cells pointers point at)
    stack,        \* v.stack: slot -> address
    sp,           \* v.sp
    globals,      \* v.globals: index -> address
    frames,       \* v.frames: index -> Frame
    framesIndex,  \* v.framesIndex
    curFrame,     \* v.curFrame, as the index of the frame it points at
    curInsts,     \* v.curInsts
    curIPLimit,   \* v.curIPLimit
    ip,           \* v.ip
    aborting,     \* v.aborting
    pc,           \* where the goroutine calling Run is
    result,       \* what the last Run returned
    abortReq,     \* history: Abort was called since this Run was entered
    sinceAbort,   \* history: instructions executed since that Abort
    calls,        \* history: one record per frame pushed and not yet popped
    runs          \* history: the number of times Run was called

vars ==
    << prog, heap, stack, sp, globals, frames, framesIndex, curFrame, curInsts,
       curIPLimit, ip, aborting, pc, result, abortReq, sinceAbort, calls,
       runs >>

\* The main function has id 0; the others are prog.fns[id].
FnOf(id) == IF id = 0 THEN Fn(prog.main, 0, 0) ELSE prog.fns[id]

\* Frame{fn, freeVars, ip, basePointer}; ZeroFrame is Go's zero value (fn nil).
Frame(fn, fv, fip, bp) == [fn |-> fn, freeVars |-> fv, ip |-> fip, basePointer |-> bp]
ZeroFrame == Frame(-1, << >>, 0, 0)

\* Run's results.
NoResult == [kind |-> "none", msg |-> "", located |-> FALSE, pos |-> 0]
ReturnNil == [kind |-> "nil", msg |-> "", located |-> FALSE, pos |-> 0]
ErrStackOverflow ==
    [kind |-> "error", msg |-> "stack overflow", located |-> FALSE, pos |-> 0]
\* fmt.Errorf("%s: ...", v.fileSet.Position(v.curFrame.fn.SourceMap[at]), ...)
ErrorAt(at, msg) == [kind |-> "error", msg |-> msg, located |-> TRUE, pos |-> at]
\* a Go run-time panic (index out of range, nil dereference) or panic(...)
Panic(msg) == [kind |-> "panic", msg |-> msg, located |-> FALSE, pos |-> 0]

\* NewVM(bytecode, nil, nil)
\* stdlib.Modules, the registry used when NewVM gets none: one module, whose
\* value is an immutable map; its cells follow the constants
ModuleCells == << GoMapV(<< "p", "i" >> :> IntV(3)),
                 ImmutableMapV(3 + Len(prog.consts) + 1) >>
builtinModules == << "m", "a", "t", "h" >> :> (3 + Len(prog.consts) + 2)

Init ==
    /\ prog \in Programs
    /\ heap = << TrueValue, FalseValue, UndefinedValue >> \o prog.consts
                 \o ModuleCells
    /\ stack = [i \in 0 .. StackSize - 1 |-> NilPtr]
    /\ sp = 0
    /\ globals = [i \in 0 .. GlobalsSize - 1 |-> NilPtr]
    /\ frames = [i \in 0 .. MaxFrames - 1 |->
                    IF i = 0 THEN Frame(0, << >>, -1, 0) ELSE ZeroFrame]
    /\ framesIndex = 1
    /\ curFrame = 0
    /\ curInsts = prog.main
    /\ curIPLimit = Len(prog.main) - 1
    /\ ip = -1
    /\ aborting = 0
    /\ pc = "idle"
    /\ result = NoResult
    /\ abortReq = FALSE
    /\ sinceAbort = 0
    /\ calls = << >>
    /\ runs = 0

\* Abort: atomic.StoreInt64(&v.aborting, 1), from another goroutine
\* (a call after Run has returned only sets the flag; the model ends there)
Abort ==
    /\ pc # "done"
    /\ aborting' = 1
    /\ abortReq' = (abortReq \/ pc \in {"entered", "loop", "check"})
    /\ UNCHANGED << prog, runs, heap, stack, sp, globals, frames, framesIndex, curFrame,
                    curInsts, curIPLimit, ip, pc, result, sinceAbort, calls >>

\* Run, entry: the reset of the VM state up to the store to v.aborting
RunReset ==
    /\ pc = "idle"
    /\ sp' = 0
    /\ curFrame' = 0
    /\ curInsts' = FnOf(frames[0].fn).insts
    /\ curIPLimit' = Len(FnOf(frames[0].fn).insts) - 1
    /\ framesIndex' = 1
    /\ ip' = -1
    /\ pc' = "entered"
    /\ abortReq' = FALSE
    /\ sinceAbort' = 0
    /\ calls' = << >>
    /\ runs' = runs + 1
    /\ UNCHANGED << prog, heap, stack, globals, frames, aborting, result >>

\* Run, entry: atomic.StoreInt64(&v.aborting, 0)
RunClearAbort ==
    /\ pc = "entered"
    /\ aborting' = 0
    /\ pc' = "loop"
    /\ UNCHANGED << prog, runs, heap, stack, sp, globals, frames, framesIndex, curFrame,
                    curInsts, curIPLimit, ip, result, abortReq, sinceAbort, calls >>

\* the loop condition: v.ip < v.curIPLimit && atomic.LoadInt64(&v.aborting) == 0
LoopCond == ip < curIPLimit /\ aborting = 0

\* the loop condition is false: fall out of the loop
LoopExit ==
    /\ pc = "loop"
    /\ ~LoopCond
    /\ pc' = "check"
    /\ UNCHANGED << prog, runs, heap, stack, sp, globals, frames, framesIndex, curFrame,
                    curInsts, curIPLimit, ip, aborting, result, abortReq,
                    sinceAbort, calls >>

\* (mutants of the check after the loop)
NonEmptyStack_IgnoresAbort == sp > 0
NonEmptyStack_Never == FALSE

\* the check after the loop, with its own load of v.aborting
NonEmptyStack == sp > 0 /\ aborting = 0

PostCheck ==
    /\ pc = "check"
    /\ result' = IF NonEmptyStack
                 THEN Panic("non empty stack after execution")
                 ELSE ReturnNil
    /\ pc' = "done"
    /\ UNCHANGED << prog, runs, heap, stack, sp, globals, frames, framesIndex, curFrame,
                    curInsts, curIPLimit, ip, aborting, abortReq, sinceAbort, calls >>

\* Run has returned (or its panic was recovered) and the host holds the VM
\* again: it may call Run once more, and Abort at any time
RunReturned ==
    /\ pc = "done"
    /\ runs < MaxRuns
    /\ pc' = "idle"
    /\ UNCHANGED << prog, runs, heap, stack, sp, globals, frames, framesIndex,
                    curFrame, curInsts, curIPLimit, ip, aborting, result, abortReq,
                    sinceAbort, calls >>

\* ------------------------------------------------------------ dispatch
\* the byte at Go index k of the current instructions
Byte(k) == curInsts[k + 1]
\* a big-endian 16-bit operand in the two bytes at k, k+1
Operand16(k) == Byte(k) * 256 + Byte(k + 1)

\* one iteration begins: the loop condition holds, v.ip++ and the switch
\* selects the case of op
Fetch(op) == pc = "loop" /\ LoopCond /\ Byte(ip + 1) = op

\* history of the instruction count since an Abort request
Tick ==
    sinceAbort' = IF abortReq /\ sinceAbort <= MaxAfterAbort
                  THEN sinceAbort + 1 ELSE sinceAbort

\* the iteration ends with v.ip = at and the loop goes on
Continue(at) == ip' = at /\ pc' = "loop" /\ result' = result /\ Tick
\* Run returns (or panics with) r, leaving v.ip = at
Return(r, at) == ip' = at /\ pc' = "done" /\ result' = r /\ Tick

\* if v.sp >= StackSize { return ErrStackOverflow }; v.stack[v.sp] = h; v.sp++
\* with v.sp = s on entry
Push(h, s, at) ==
    IF s >= StackSize
    THEN sp' = s /\ stack' = stack /\ Return(ErrStackOverflow, at)
    ELSE sp' = s + 1 /\ stack' = [stack EXCEPT ![s] = h] /\ Continue(at)

\* a new cell holding val: `var x objects.Object = val; ... = &x`
NewCell == Len(heap) + 1

RunOpConstant ==
    /\ Fetch(OpConstant)
    /\ Push(ConstPtr(Operand16(ip + 2)), sp, ip + 3)
    /\ UNCHANGED << prog, runs, heap, globals, frames, framesIndex, curFrame, curInsts,
                    curIPLimit, aborting, abortReq, calls >>

RunOpNull ==
    /\ Fetch(OpNull)
    /\ Push(UndefinedPtr, sp, ip + 1)
    /\ UNCHANGED << prog, runs, heap, globals, frames, framesIndex, curFrame, curInsts,
                    curIPLimit, aborting, abortReq, calls >>

RunOpTrue ==
    /\ Fetch(OpTrue)
    /\ Push(TruePtr, sp, ip + 1)
    /\ UNCHANGED << prog, runs, heap, globals, frames, framesIndex, curFrame, curInsts,
                    curIPLimit, aborting, abortReq, calls >>

RunOpFalse ==
    /\ Fetch(OpFalse)
    /\ Push(FalsePtr, sp, ip + 1)
    /\ UNCHANGED << prog, runs, heap, globals, frames, framesIndex, curFrame, curInsts,
                    curIPLimit, aborting, abortReq, calls >>

RunOpPop ==
    /\ Fetch(OpPop)
    /\ sp' = sp - 1
    /\ Continue(ip + 1)
    /\ UNCHANGED << prog, runs, heap, stack, globals, frames, framesIndex, curFrame,
                    curInsts, curIPLimit, aborting, abortReq, calls >>


\* OpAdd, OpSub: pop right and left, push a new cell holding left (op) right
RunOpAdd ==
    /\ Fetch(OpAdd)
    /\ sp >= 2
    /\ LET right == stack[sp - 1]
           left == stack[sp - 2]
       IN  IF left = NilPtr \/ right = NilPtr
           THEN /\ sp' = sp - 2
                /\ Return(Panic("nil pointer dereference"), ip + 1)
                /\ UNCHANGED << heap, stack >>
           ELSE IF ~BinaryOpOk(heap[left], heap[right])
           THEN /\ sp' = sp - 2
                /\ Return(ErrorAt(ip + 1, "invalid operation: +"), ip + 1)
                /\ UNCHANGED << heap, stack >>
           ELSE /\ heap' = IF sp - 2 >= StackSize THEN heap
                           ELSE Append(heap, BinaryOpAdd(heap[left], heap[right]))
                /\ Push(NewCell, sp - 2, ip + 1)
    /\ UNCHANGED << prog, runs, globals, frames, framesIndex, curFrame, curInsts,
                    curIPLimit, aborting, abortReq, calls >>

RunOpSub ==
    /\ Fetch(OpSub)
    /\ sp >= 2
    /\ LET right == stack[sp - 1]
           left == stack[sp - 2]
       IN  IF left = NilPtr \/ right = NilPtr
           THEN /\ sp' = sp - 2
                /\ Return(Panic("nil pointer dereference"), ip + 1)
                /\ UNCHANGED << heap, stack >>
           ELSE IF ~BinaryOpOk(heap[left], heap[right])
           THEN /\ sp' = sp - 2
                /\ Return(ErrorAt(ip + 1, "invalid operation: -"), ip + 1)
                /\ UNCHANGED << heap, stack >>
           ELSE /\ heap' = IF sp - 2 >= StackSize THEN heap
                           ELSE Append(heap, BinaryOpSub(heap[left], heap[right]))
                /\ Push(NewCell, sp - 2, ip + 1)
    /\ UNCHANGED << prog, runs, globals, frames, framesIndex, curFrame, curInsts,
                    curIPLimit, aborting, abortReq, calls >>

RunOpEqual ==
    /\ Fetch(OpEqual)
    /\ sp >= 2
    /\ LET right == stack[sp - 1]
           left == stack[sp - 2]
       IN  IF sp - 2 < StackSize /\ (left = NilPtr \/ right = NilPtr)
           THEN /\ sp' = sp - 2
                /\ stack' = stack
                /\ Return(Panic("nil pointer dereference"), ip + 1)
           ELSE Push(IF sp - 2 < StackSize /\ Equals(heap[left], heap[right])
                     THEN TruePtr ELSE FalsePtr, sp - 2, ip + 1)
    /\ UNCHANGED << prog, runs, heap, globals, frames, framesIndex, curFrame, curInsts,
                    curIPLimit, aborting, abortReq, calls >>

RunOpJumpFalsy ==
    /\ Fetch(OpJumpFalsy)
    /\ sp >= 1
    /\ LET pos == Operand16(ip + 2)
           condition == stack[sp - 1]
       IN  /\ sp' = sp - 1
           /\ IF condition = NilPtr
              THEN Return(Panic("nil pointer dereference"), ip + 3)
              ELSE Continue(IF IsFalsy(heap[condition]) THEN pos - 1 ELSE ip + 3)
    /\ UNCHANGED << prog, runs, heap, stack, globals, frames, framesIndex, curFrame,
                    curInsts, curIPLimit, aborting, abortReq, calls >>

RunOpJump ==
    /\ Fetch(OpJump)
    /\ Continue(Operand16(ip + 2) - 1)
    /\ UNCHANGED << prog, runs, heap, stack, sp, globals, frames, framesIndex, curFrame,
                    curInsts, curIPLimit, aborting, abortReq, calls >>

RunOpSetGlobal ==
    /\ Fetch(OpSetGlobal)
    /\ sp' = sp - 1
    /\ IF sp < 1
       THEN \* v.stack[v.sp] with v.sp = -1: index out of range
            /\ globals' = globals
            /\ Return(Panic("index out of range"), ip + 3)
       ELSE /\ globals' = [globals EXCEPT ![Operand16(ip + 2)] = stack[sp - 1]]
            /\ Continue(ip + 3)
    /\ UNCHANGED << prog, runs, heap, stack, frames, framesIndex, curFrame, curInsts,
                    curIPLimit, aborting, abortReq, calls >>

RunOpGetGlobal ==
    /\ Fetch(OpGetGlobal)
    /\ Push(globals[Operand16(ip + 2)], sp, ip + 3)
    /\ UNCHANGED << prog, runs, heap, globals, frames, framesIndex, curFrame, curInsts,
                    curIPLimit, aborting, abortReq, calls >>


\* ------------------------------------------------------------ calls
\* (mutant of the tail-call test: looks for OpReturn where OpReturnValue is meant)
IsTailCall_WrongOpcode(fnId, at) ==
    /\ fnId = frames[curFrame].fn
    /\ \/ Byte(at + 1) = OpReturn
       \/ (Byte(at + 1) = OpPop /\ Byte(at + 2) = OpReturn)

\* callee.Fn == v.curFrame.fn and the next opcode is OpReturnValue, or OpPop
\* directly followed by OpReturn; at = v.ip, the index of OpCall's operand
IsTailCall(fnId, at) ==
    /\ fnId = frames[curFrame].fn
    /\ \/ Byte(at + 1) = OpReturnValue
       \/ (Byte(at + 1) = OpPop /\ Byte(at + 2) = OpReturn)

\* for p := 0; p < numArgs; p++ { v.stack[bp+p] = v.stack[v.sp-numArgs+p] }
RECURSIVE CopyArgs(_, _, _, _)
CopyArgs(st, bp, numArgs, p) ==
    IF p >= numArgs THEN st
    ELSE CopyArgs([st EXCEPT ![bp + p] = st[sp - numArgs + p]], bp, numArgs, p + 1)

\* the tail call: the arguments replace the parameters of the current frame
TailCall(numArgs) ==
    /\ stack' = CopyArgs(stack, frames[curFrame].basePointer, numArgs, 0)
    /\ sp' = sp - (numArgs + 1)
    /\ Continue(-1)
    /\ UNCHANGED << frames, framesIndex, curFrame, curInsts, curIPLimit, calls >>

\* "update call frame": the caller's ip is saved, frame v.framesIndex becomes
\* the current frame; at = v.ip
PushFrame(fnId, fv, numArgs, at) ==
    IF framesIndex >= MaxFrames
    THEN \* &(v.frames[v.framesIndex]): index out of range
         /\ frames' = [frames EXCEPT ![curFrame].ip = at]
         /\ Return(Panic("index out of range"), at)
         /\ UNCHANGED << stack, sp, framesIndex, curFrame, curInsts, curIPLimit,
                         calls >>
    ELSE /\ frames' = [frames EXCEPT
                          ![curFrame].ip = at,
                          ![framesIndex].fn = fnId,
                          ![framesIndex].freeVars = fv,
                          ![framesIndex].basePointer = sp - numArgs]
         /\ curFrame' = framesIndex
         /\ curInsts' = FnOf(fnId).insts
         /\ curIPLimit' = Len(FnOf(fnId).insts) - 1
         /\ framesIndex' = framesIndex + 1
         /\ sp' = sp - numArgs + FnOf(fnId).nl
         /\ stack' = stack
         /\ calls' = Append(calls, [s |-> sp - 1 - numArgs, fi |-> framesIndex,
                                    cf |-> curFrame, ip |-> at])
         /\ Continue(-1)

RunOpCall ==
    /\ Fetch(OpCall)
    /\ LET numArgs == Byte(ip + 2)
           at == ip + 2
           callee == stack[sp - 1 - numArgs]
       IN  /\ sp >= 1 + numArgs
           /\ IF callee = NilPtr
              THEN /\ Return(Panic("nil pointer dereference"), at)
                   /\ UNCHANGED << stack, sp, frames, framesIndex, curFrame,
                                   curInsts, curIPLimit, calls >>
              ELSE IF heap[callee].t \notin {"closure", "compiled-function"}
              THEN /\ Return(ErrorAt(at - 1, "not callable"), at)
                   /\ UNCHANGED << stack, sp, frames, framesIndex, curFrame,
                                   curInsts, curIPLimit, calls >>
              ELSE IF numArgs # FnOf(heap[callee].n).np
              THEN /\ Return(ErrorAt(at - 1, "wrong number of arguments"), at)
                   /\ UNCHANGED << stack, sp, frames, framesIndex, curFrame,
                                   curInsts, curIPLimit, calls >>
              ELSE IF IsTailCall(heap[callee].n, at)
              THEN TailCall(numArgs)
              ELSE PushFrame(heap[callee].n, heap[callee].free, numArgs, at)
    /\ UNCHANGED << prog, runs, heap, globals, aborting, abortReq >>

\* (mutant of the return: the commented-out `v.sp = lastFrame.basePointer - 1`)
PopFrame_BelowCallee(ret) ==
    /\ framesIndex - 2 >= 0
    /\ framesIndex' = framesIndex - 1
    /\ curFrame' = framesIndex - 2
    /\ curInsts' = FnOf(frames[framesIndex - 2].fn).insts
    /\ curIPLimit' = Len(FnOf(frames[framesIndex - 2].fn).insts) - 1
    /\ sp' = frames[framesIndex - 1].basePointer - 1
    /\ stack' = [stack EXCEPT ![frames[framesIndex - 1].basePointer - 1] = ret]
    /\ calls' = IF calls = << >> THEN calls ELSE SubSeq(calls, 1, Len(calls) - 1)
    /\ Continue(frames[framesIndex - 2].ip)

\* the frame is popped and ret is left in the slot below its base pointer
PopFrame(ret) ==
    IF framesIndex - 2 < 0
    THEN \* &v.frames[v.framesIndex-1]: index out of range
         /\ framesIndex' = framesIndex - 1
         /\ Return(Panic("index out of range"), ip + 1)
         /\ UNCHANGED << stack, sp, curFrame, curInsts, curIPLimit, calls >>
    ELSE LET lastFrame == frames[framesIndex - 1]
             caller == frames[framesIndex - 2]
         IN  /\ framesIndex' = framesIndex - 1
             /\ curFrame' = framesIndex - 2
             /\ curInsts' = FnOf(caller.fn).insts
             /\ curIPLimit' = Len(FnOf(caller.fn).insts) - 1
             /\ sp' = lastFrame.basePointer
             /\ stack' = [stack EXCEPT ![lastFrame.basePointer - 1] = ret]
             /\ calls' = IF calls = << >> THEN calls
                         ELSE SubSeq(calls, 1, Len(calls) - 1)
             /\ Continue(caller.ip)

RunOpReturnValue ==
    /\ Fetch(OpReturnValue)
    /\ sp >= 1
    /\ PopFrame(stack[sp - 1])
    /\ UNCHANGED << prog, runs, heap, globals, frames, aborting, abortReq >>

\* OpReturn that leaves the loop with the callee's frame in place
RunOpReturn_LeavesFrame ==
    /\ Fetch(OpReturn)
    /\ sp' = 0
    /\ Continue(curIPLimit)
    /\ UNCHANGED << prog, runs, heap, stack, globals, frames, framesIndex, curFrame,
                    curInsts, curIPLimit, aborting, abortReq, calls >>

RunOpReturn ==
    /\ Fetch(OpReturn)
    /\ PopFrame(UndefinedPtr)
    /\ UNCHANGED << prog, runs, heap, globals, frames, aborting, abortReq >>

\* ------------------------------------------------------------ locals
\* (mutant of OpDefineLocal: the slot takes the popped handle, not a copy)
RunOpDefineLocal_Aliases ==
    /\ Fetch(OpDefineLocal)
    /\ sp >= 1
    /\ stack[sp - 1] # NilPtr
    /\ frames[curFrame].basePointer + Byte(ip + 2) < StackSize
    /\ sp' = sp - 1
    /\ stack' = [stack EXCEPT
                    ![frames[curFrame].basePointer + Byte(ip + 2)] = stack[sp - 1]]
    /\ Continue(ip + 2)
    /\ UNCHANGED << prog, runs, heap, globals, frames, framesIndex, curFrame, curInsts,
                    curIPLimit, aborting, abortReq, calls >>

RunOpDefineLocal ==
    /\ Fetch(OpDefineLocal)
    /\ sp >= 1
    /\ LET slot == frames[curFrame].basePointer + Byte(ip + 2)
           val == stack[sp - 1]
       IN  IF val = NilPtr
           THEN /\ Return(Panic("nil pointer dereference"), ip + 2)
                /\ UNCHANGED << heap, stack, sp >>
           ELSE IF slot >= StackSize
           THEN /\ sp' = sp - 1
                /\ Return(Panic("index out of range"), ip + 2)
                /\ UNCHANGED << heap, stack >>
           ELSE /\ sp' = sp - 1
                /\ heap' = Append(heap, heap[val])
                /\ stack' = [stack EXCEPT ![slot] = NewCell]
                /\ Continue(ip + 2)
    /\ UNCHANGED << prog, runs, globals, frames, framesIndex, curFrame, curInsts,
                    curIPLimit, aborting, abortReq, calls >>

RunOpSetLocal ==
    /\ Fetch(OpSetLocal)
    /\ sp >= 1
    /\ LET slot == frames[curFrame].basePointer + Byte(ip + 2)
           val == stack[sp - 1]
       IN  /\ sp' = sp - 1
           /\ IF slot >= StackSize
              THEN Return(Panic("index out of range"), ip + 2) /\ heap' = heap
              ELSE IF val = NilPtr \/ stack[slot] = NilPtr
              THEN Return(Panic("nil pointer dereference"), ip + 2) /\ heap' = heap
              ELSE /\ heap' = [heap EXCEPT ![stack[slot]] = heap[val]]
                   /\ Continue(ip + 2)
    /\ UNCHANGED << prog, runs, stack, globals, frames, framesIndex, curFrame, curInsts,
                    curIPLimit, aborting, abortReq, calls >>

RunOpGetLocal ==
    /\ Fetch(OpGetLocal)
    /\ LET slot == frames[curFrame].basePointer + Byte(ip + 2)
       IN  IF slot >= StackSize
           THEN /\ Return(Panic("index out of range"), ip + 2)
                /\ UNCHANGED << stack, sp >>
           ELSE Push(stack[slot], sp, ip + 2)
    /\ UNCHANGED << prog, runs, heap, globals, frames, framesIndex, curFrame, curInsts,
                    curIPLimit, aborting, abortReq, calls >>

\* ------------------------------------------------------------ closures
RunOpClosure ==
    /\ Fetch(OpClosure)
    /\ LET constIndex == Operand16(ip + 2)
           numFree == Byte(ip + 4)
           fn == heap[ConstPtr(constIndex)]
           free == [i \in 1 .. numFree |-> stack[sp - numFree + i - 1]]
       IN  /\ sp >= numFree
           /\ IF fn.t # "compiled-function"
              THEN /\ Return(ErrorAt(ip + 1, "not function"), ip + 4)
                   /\ UNCHANGED << heap, stack, sp >>
              ELSE /\ heap' = IF sp - numFree >= StackSize THEN heap
                              ELSE Append(heap, ClosureV(fn.n, free))
                   /\ Push(NewCell, sp - numFree, ip + 4)
    /\ UNCHANGED << prog, runs, globals, frames, framesIndex, curFrame, curInsts,
                    curIPLimit, aborting, abortReq, calls >>

RunOpGetFree ==
    /\ Fetch(OpGetFree)
    /\ LET freeIndex == Byte(ip + 2)
       IN  IF freeIndex >= Len(frames[curFrame].freeVars)
           THEN /\ Return(Panic("index out of range"), ip + 2)
                /\ UNCHANGED << stack, sp >>
           ELSE Push(frames[curFrame].freeVars[freeIndex + 1], sp, ip + 2)
    /\ UNCHANGED << prog, runs, heap, globals, frames, framesIndex, curFrame, curInsts,
                    curIPLimit, aborting, abortReq, calls >>

\* (mutant of OpSetFree: the frame's handle is replaced, the cell is not written)
RunOpSetFree_Rebinds ==
    /\ Fetch(OpSetFree)
    /\ sp >= 1
    /\ Byte(ip + 2) < Len(frames[curFrame].freeVars)
    /\ sp' = sp - 1
    /\ frames' = [frames EXCEPT
                     ![curFrame].freeVars[Byte(ip + 2) + 1] = stack[sp - 1]]
    /\ Continue(ip + 2)
    /\ UNCHANGED << prog, runs, heap, stack, globals, framesIndex, curFrame, curInsts,
                    curIPLimit, aborting, abortReq, calls >>

RunOpSetFree ==
    /\ Fetch(OpSetFree)
    /\ sp >= 1
    /\ LET freeIndex == Byte(ip + 2)
           val == stack[sp - 1]
       IN  /\ sp' = sp - 1
           /\ IF freeIndex >= Len(frames[curFrame].freeVars)
              THEN Return(Panic("index out of range"), ip + 2) /\ heap' = heap
              ELSE IF val = NilPtr \/ frames[curFrame].freeVars[freeIndex + 1] = NilPtr
              THEN Return(Panic("nil pointer dereference"), ip + 2) /\ heap' = heap
              ELSE /\ heap' = [heap EXCEPT
                                  ![frames[curFrame].freeVars[freeIndex + 1]] = heap[val]]
                   /\ Continue(ip + 2)
    /\ UNCHANGED << prog, runs, stack, globals, frames, framesIndex, curFrame, curInsts,
                    curIPLimit, aborting, abortReq, calls >>

\* ------------------------------------------------------------ containers
\* `x == objects.UndefinedValue`: a comparison with the variable that
\* undefinedPtr points at
IsUndefinedValue(h, v) == v = h[UndefinedPtr]
\* len(o.Value) and o.Value as a sequence, for Array, ImmutableArray, String
LenOf(c) == IF c.t = "string" THEN Len(c.s) ELSE c.len
Elems(h, c) ==
    IF c.t = "string" THEN c.s
    ELSE SubSeq(h[c.arr].elems, c.off + 1, c.off + c.len)
\* a slice that starts where its operand starts, whatever lowIdx is
SliceOf_FromStart(c, lowIdx, highIdx) ==
    IF c.t = "string" THEN StringV(SubSeq(c.s, 1, highIdx - lowIdx))
    ELSE ArrayV(c.arr, c.off, highIdx - lowIdx)
\* o.Value[lowIdx:highIdx]: a window on the same backing array
SliceOf(c, lowIdx, highIdx) ==
    IF c.t = "string" THEN StringV(SubSeq(c.s, lowIdx + 1, highIdx))
    ELSE ArrayV(c.arr, c.off + lowIdx, highIdx - lowIdx)

\* objects.Indexable, objects.IndexAssignable: the variants that implement them
Indexable(v) ==
    v.t \in {"array", "immutable-array", "map", "immutable-map", "string"}
IndexAssignable(v) == v.t \in {"array", "map"}
\* Indexable.IndexGet: the error ("" for none) and the value
IndexGetErr(c, index) ==
    IF c.t \in {"map", "immutable-map"}
    THEN IF index.t # "string" THEN "invalid index type" ELSE ""
    ELSE IF index.t # "int" THEN "invalid index type"
    ELSE IF index.n < 0 \/ index.n >= LenOf(c) THEN "index out of bounds"
    ELSE ""
IndexGet(h, c, index) ==
    IF c.t \in {"map", "immutable-map"}
    THEN IF index.s \in DOMAIN h[c.m].kv THEN h[c.m].kv[index.s]
         ELSE h[UndefinedPtr]
    ELSE IF c.t = "string" THEN CharV(c.s[index.n + 1])
    ELSE h[c.arr].elems[c.off + index.n + 1]
\* IndexAssignable.IndexSet: the error ("" for none) and the heap it leaves
IndexSetErr(c, index) ==
    IF c.t = "map"
    THEN IF index.t # "string" THEN "invalid index type" ELSE ""
    ELSE IF index.t # "int" THEN "invalid index type"
    ELSE IF index.n < 0 \/ index.n >= c.len THEN "index out of bounds"
    ELSE ""
IndexSet(h, c, index, val) ==
    IF c.t = "map"
    THEN [h EXCEPT ![c.m].kv = (index.s :> val) @@ @]
    ELSE [h EXCEPT ![c.arr].elems[c.off + index.n + 1] = val]

\* indexAssign, the loop `for sidx := numSel - 1; sidx > 0; sidx--`: cur is
\* *dst, selectors[sidx + 1] is the source's selectors[sidx]
RECURSIVE IndexWalk(_, _, _, _)
IndexWalk(h, cur, selectors, sidx) ==
    IF sidx <= 0 THEN [err |-> "", val |-> cur]
    ELSE IF ~Indexable(cur) THEN [err |-> "not indexable", val |-> cur]
    ELSE IF IndexGetErr(cur, h[selectors[sidx + 1]]) # ""
    THEN [err |-> IndexGetErr(cur, h[selectors[sidx + 1]]), val |-> cur]
    ELSE IndexWalk(h, IndexGet(h, cur, h[selectors[sidx + 1]]), selectors, sidx - 1)
\* indexAssign that assigns in the target variable itself
indexAssign_NoWalk(dst, src, selectors) ==
    IF ~IndexAssignable(heap[dst])
    THEN [err |-> "not index-assignable", heap |-> heap]
    ELSE IF IndexSetErr(heap[dst], heap[selectors[1]]) # ""
    THEN [err |-> IndexSetErr(heap[dst], heap[selectors[1]]), heap |-> heap]
    ELSE [err |-> "",
          heap |-> IndexSet(heap, heap[dst], heap[selectors[1]], heap[src])]
\* indexAssign(dst, src, selectors): the error and the heap it leaves
indexAssign(dst, src, selectors) ==
    LET leaf == IndexWalk(heap, heap[dst], selectors, Len(selectors) - 1)
    IN  IF leaf.err # "" THEN [err |-> leaf.err, heap |-> heap]
        ELSE IF ~IndexAssignable(leaf.val)
        THEN [err |-> "not index-assignable", heap |-> heap]
        ELSE IF IndexSetErr(leaf.val, heap[selectors[1]]) # ""
        THEN [err |-> IndexSetErr(leaf.val, heap[selectors[1]]), heap |-> heap]
        ELSE [err |-> "",
              heap |-> IndexSet(heap, leaf.val, heap[selectors[1]], heap[src])]

\* ------------------------------------------------------------ short circuit
\* OpAndJump that pops the condition on both branches, as OpJumpFalsy does
RunOpAndJump_PopsAlways ==
    /\ Fetch(OpAndJump)
    /\ sp >= 1
    /\ LET pos == Operand16(ip + 2)
           condition == stack[sp - 1]
       IN  IF condition = NilPtr
           THEN sp' = sp /\ Return(Panic("nil pointer dereference"), ip + 3)
           ELSE IF IsFalsy(heap[condition])
           THEN sp' = sp - 1 /\ Continue(pos - 1)
           ELSE sp' = sp - 1 /\ Continue(ip + 3)
    /\ UNCHANGED << prog, runs, heap, stack, globals, frames, framesIndex, curFrame,
                    curInsts, curIPLimit, aborting, abortReq, calls >>

RunOpAndJump ==
    /\ Fetch(OpAndJump)
    /\ sp >= 1
    /\ LET pos == Operand16(ip + 2)
           condition == stack[sp - 1]
       IN  IF condition = NilPtr
           THEN sp' = sp /\ Return(Panic("nil pointer dereference"), ip + 3)
           ELSE IF IsFalsy(heap[condition])
           THEN sp' = sp /\ Continue(pos - 1)
           ELSE sp' = sp - 1 /\ Continue(ip + 3)
    /\ UNCHANGED << prog, runs, heap, stack, globals, frames, framesIndex, curFrame,
                    curInsts, curIPLimit, aborting, abortReq, calls >>

RunOpOrJump ==
    /\ Fetch(OpOrJump)
    /\ sp >= 1
    /\ LET pos == Operand16(ip + 2)
           condition == stack[sp - 1]
       IN  IF condition = NilPtr
           THEN sp' = sp /\ Return(Panic("nil pointer dereference"), ip + 3)
           ELSE IF ~IsFalsy(heap[condition])
           THEN sp' = sp /\ Continue(pos - 1)
           ELSE sp' = sp - 1 /\ Continue(ip + 3)
    /\ UNCHANGED << prog, runs, heap, stack, globals, frames, framesIndex, curFrame,
                    curInsts, curIPLimit, aborting, abortReq, calls >>

\* ------------------------------------------------------------ composition
\* the handles in the n stack slots below v.sp
TopHandles(n) == [i \in 1 .. n |-> stack[sp - n + i - 1]]

RunOpArray ==
    /\ Fetch(OpArray)
    /\ LET numElements == Operand16(ip + 2)
           elements == [i \in 1 .. numElements |-> heap[TopHandles(numElements)[i]]]
       IN  /\ sp >= numElements
           /\ IF \E i \in 1 .. numElements : TopHandles(numElements)[i] = NilPtr
              THEN /\ Return(Panic("nil pointer dereference"), ip + 3)
                   /\ UNCHANGED << heap, stack, sp >>
              ELSE /\ heap' = IF sp - numElements >= StackSize THEN heap
                              ELSE heap \o << BackingV(elements),
                                              ArrayV(Len(heap) + 1, 0, numElements) >>
                   /\ Push(Len(heap) + 2, sp - numElements, ip + 3)
    /\ UNCHANGED << prog, runs, globals, frames, framesIndex, curFrame, curInsts,
                    curIPLimit, aborting, abortReq, calls >>

\* the loop `for i := v.sp - numElements; i < v.sp; i += 2` of OpMap runs
\* once per two slots; for an odd numElements its last round reads the value
\* at v.stack[v.sp]
MapRounds(numElements) == (numElements + 1) \div 2
\* a map that keeps the first of the pairs with the same key
MapOfPairs_FirstWins(numElements) ==
    LET pairs == MapRounds(numElements)
        keyAt(j) == heap[stack[sp - numElements + 2 * (j - 1)]].s
        valAt(j) == heap[stack[sp - numElements + 2 * (j - 1) + 1]]
        firstOf(k) == CHOOSE j \in 1 .. pairs :
                         /\ keyAt(j) = k
                         /\ \A j2 \in 1 .. pairs : keyAt(j2) = k => j2 >= j
    IN  [k \in {keyAt(j) : j \in 1 .. pairs} |-> valAt(firstOf(k))]
\* kv[key] = value for the pairs in stack order: a later pair wins
MapOfPairs(numElements) ==
    LET pairs == MapRounds(numElements)
        keyAt(j) == heap[stack[sp - numElements + 2 * (j - 1)]].s
        valAt(j) == heap[stack[sp - numElements + 2 * (j - 1) + 1]]
        lastOf(k) == CHOOSE j \in 1 .. pairs :
                        /\ keyAt(j) = k
                        /\ \A j2 \in 1 .. pairs : keyAt(j2) = k => j2 <= j
    IN  [k \in {keyAt(j) : j \in 1 .. pairs} |-> valAt(lastOf(k))]

RunOpMap ==
    /\ Fetch(OpMap)
    /\ LET numElements == Operand16(ip + 2)
           read == 2 * MapRounds(numElements)
       IN  /\ sp >= numElements
           /\ IF sp - numElements + read > StackSize
              THEN /\ Return(Panic("index out of range"), ip + 3)
                   /\ UNCHANGED << heap, stack, sp >>
              ELSE IF \E i \in 0 .. read - 1 : stack[sp - numElements + i] = NilPtr
              THEN /\ Return(Panic("nil pointer dereference"), ip + 3)
                   /\ UNCHANGED << heap, stack, sp >>
              ELSE IF \E j \in 1 .. MapRounds(numElements) :
                        heap[stack[sp - numElements + 2 * (j - 1)]].t # "string"
              THEN /\ Return(Panic("interface conversion"), ip + 3)
                   /\ UNCHANGED << heap, stack, sp >>
              ELSE /\ heap' = IF sp - numElements >= StackSize THEN heap
                              ELSE heap \o << GoMapV(MapOfPairs(numElements)),
                                              MapV(Len(heap) + 1) >>
                   /\ Push(Len(heap) + 2, sp - numElements, ip + 3)
    /\ UNCHANGED << prog, runs, globals, frames, framesIndex, curFrame, curInsts,
                    curIPLimit, aborting, abortReq, calls >>

RunOpImmutable ==
    /\ Fetch(OpImmutable)
    /\ sp >= 1
    /\ LET value == stack[sp - 1]
       IN  IF value = NilPtr
           THEN /\ Return(Panic("nil pointer dereference"), ip + 1)
                /\ UNCHANGED << heap, stack >>
           ELSE IF heap[value].t = "array"
           THEN /\ heap' = Append(heap, ImmutableArrayV(heap[value].arr,
                                           heap[value].off, heap[value].len))
                /\ stack' = [stack EXCEPT ![sp - 1] = NewCell]
                /\ Continue(ip + 1)
           ELSE IF heap[value].t = "map"
           THEN /\ heap' = Append(heap, ImmutableMapV(heap[value].m))
                /\ stack' = [stack EXCEPT ![sp - 1] = NewCell]
                /\ Continue(ip + 1)
           ELSE /\ Continue(ip + 1)
                /\ UNCHANGED << heap, stack >>
    /\ UNCHANGED << prog, runs, sp, globals, frames, framesIndex, curFrame, curInsts,
                    curIPLimit, aborting, abortReq, calls >>

\* ------------------------------------------------------------ indexing
RunOpIndex ==
    /\ Fetch(OpIndex)
    /\ sp >= 2
    /\ LET index == stack[sp - 1]
           left == stack[sp - 2]
       IN  IF left = NilPtr \/ index = NilPtr
           THEN /\ sp' = sp - 2
                /\ Return(Panic("nil pointer dereference"), ip + 1)
                /\ UNCHANGED << heap, stack >>
           ELSE IF ~Indexable(heap[left])
           THEN /\ sp' = sp - 2
                /\ Return(ErrorAt(ip + 1, "not indexable"), ip + 1)
                /\ UNCHANGED << heap, stack >>
           ELSE IF IndexGetErr(heap[left], heap[index]) # ""
           THEN /\ sp' = sp - 2
                /\ Return(ErrorAt(ip + 1, IndexGetErr(heap[left], heap[index])), ip + 1)
                /\ UNCHANGED << heap, stack >>
           ELSE /\ heap' = IF sp - 2 >= StackSize THEN heap
                           ELSE Append(heap, IndexGet(heap, heap[left], heap[index]))
                /\ Push(NewCell, sp - 2, ip + 1)
    /\ UNCHANGED << prog, runs, globals, frames, framesIndex, curFrame, curInsts,
                    curIPLimit, aborting, abortReq, calls >>

\* a clamp that sends an index beyond the end to the start
ClampIdx_ToZero(idx, numElements) ==
    IF idx < 0 \/ idx > numElements THEN 0 ELSE idx
\* if idx < 0 { idx = 0 } else if idx > numElements { idx = numElements }
ClampIdx(idx, numElements) ==
    IF idx < 0 THEN 0 ELSE IF idx > numElements THEN numElements ELSE idx

RunOpSliceIndex ==
    /\ Fetch(OpSliceIndex)
    /\ sp >= 3
    /\ LET high == stack[sp - 1]
           low == stack[sp - 2]
           left == stack[sp - 3]
           lowIdx == IF IsUndefinedValue(heap, heap[low]) THEN 0 ELSE heap[low].n
           numElements == LenOf(heap[left])
           highIdx == IF IsUndefinedValue(heap, heap[high]) THEN numElements
                      ELSE heap[high].n
       IN  IF high = NilPtr \/ low = NilPtr \/ left = NilPtr
              THEN /\ sp' = sp - 3
                   /\ Return(Panic("nil pointer dereference"), ip + 1)
                   /\ UNCHANGED << heap, stack >>
              ELSE IF ~IsUndefinedValue(heap, heap[low]) /\ heap[low].t # "int"
              THEN /\ sp' = sp - 3
                   /\ Return(ErrorAt(ip + 1, "invalid slice index type"), ip + 1)
                   /\ UNCHANGED << heap, stack >>
              ELSE IF heap[left].t \notin {"array", "immutable-array", "string"}
              THEN /\ sp' = sp - 3
                   /\ Continue(ip + 1)
                   /\ UNCHANGED << heap, stack >>
              ELSE IF ~IsUndefinedValue(heap, heap[high]) /\ heap[high].t # "int"
              THEN /\ sp' = sp - 3
                   /\ Return(ErrorAt(ip + 1, "invalid slice index type"), ip + 1)
                   /\ UNCHANGED << heap, stack >>
              ELSE IF lowIdx > highIdx
              THEN /\ sp' = sp - 3
                   /\ Return(ErrorAt(ip + 1, "invalid slice index"), ip + 1)
                   /\ UNCHANGED << heap, stack >>
              ELSE /\ heap' = IF sp - 3 >= StackSize THEN heap
                              ELSE Append(heap,
                                       SliceOf(heap[left],
                                               ClampIdx(lowIdx, numElements),
                                               ClampIdx(highIdx, numElements)))
                   /\ Push(NewCell, sp - 3, ip + 1)
    /\ UNCHANGED << prog, runs, globals, frames, framesIndex, curFrame, curInsts,
                    curIPLimit, aborting, abortReq, calls >>

\* ------------------------------------------------------------ selector assignment
\* the common part of OpSetSelGlobal / OpSetSelLocal / OpSetSelFree: the
\* selectors and the value are popped and indexAssign runs on dst; at = v.ip,
\* the index of the last operand byte, opAt the index the position is read at
SetSel(dst, numSelectors, at, opAt) ==
    LET selectors == TopHandles(numSelectors)
        val == stack[sp - numSelectors - 1]
    IN  /\ sp >= numSelectors + 1
        /\ sp' = sp - (numSelectors + 1)
        /\ stack' = stack
        /\ IF numSelectors < 1
           THEN \* indexAssign with no selector: selectors[0] is out of range
                /\ heap' = heap
                /\ IF dst = NilPtr
                   THEN Return(Panic("nil pointer dereference"), at)
                   ELSE IF ~IndexAssignable(heap[dst])
                   THEN Return(ErrorAt(opAt, "not index-assignable"), at)
                   ELSE Return(Panic("index out of range"), at)
           ELSE IF dst = NilPtr \/ val = NilPtr
                   \/ \E i \in 1 .. numSelectors : selectors[i] = NilPtr
           THEN Return(Panic("nil pointer dereference"), at) /\ heap' = heap
           ELSE IF indexAssign(dst, val, selectors).err # ""
           THEN /\ Return(ErrorAt(opAt, indexAssign(dst, val, selectors).err), at)
                /\ heap' = heap
           ELSE /\ heap' = indexAssign(dst, val, selectors).heap
                /\ Continue(at)

RunOpSetSelGlobal ==
    /\ Fetch(OpSetSelGlobal)
    /\ SetSel(globals[Operand16(ip + 2)], Byte(ip + 4), ip + 4, ip + 4 - 3)
    /\ UNCHANGED << prog, runs, globals, frames, framesIndex, curFrame, curInsts,
                    curIPLimit, aborting, abortReq, calls >>

RunOpSetSelLocal ==
    /\ Fetch(OpSetSelLocal)
    /\ frames[curFrame].basePointer + Byte(ip + 2) < StackSize
    /\ SetSel(stack[frames[curFrame].basePointer + Byte(ip + 2)], Byte(ip + 3),
              ip + 3, ip + 3 - 2)
    /\ UNCHANGED << prog, runs, globals, frames, framesIndex, curFrame, curInsts,
                    curIPLimit, aborting, abortReq, calls >>

RunOpSetSelFree ==
    /\ Fetch(OpSetSelFree)
    /\ Byte(ip + 2) < Len(frames[curFrame].freeVars)
    /\ SetSel(frames[curFrame].freeVars[Byte(ip + 2) + 1], Byte(ip + 3),
              ip + 3, ip + 3 - 2)
    /\ UNCHANGED << prog, runs, globals, frames, framesIndex, curFrame, curInsts,
                    curIPLimit, aborting, abortReq, calls >>

\* ------------------------------------------------------------ modules
RunOpGetBuiltinModule ==
    /\ Fetch(OpGetBuiltinModule)
    /\ sp >= 1
    /\ LET val == stack[sp - 1]
       IN  IF val = NilPtr
           THEN /\ sp' = sp - 1 /\ stack' = stack
                /\ Return(Panic("nil pointer dereference"), ip + 1)
           ELSE IF heap[val].t # "string"
           THEN /\ sp' = sp - 1 /\ stack' = stack
                /\ Return(Panic("interface conversion"), ip + 1)
           ELSE IF heap[val].s \notin DOMAIN builtinModules
           THEN /\ sp' = sp - 1 /\ stack' = stack
                /\ Return(ErrorAt(ip + 1 - 3, "module not found"), ip + 1)
           ELSE Push(builtinModules[heap[val].s], sp - 1, ip + 1)
    /\ UNCHANGED << prog, runs, heap, globals, frames, framesIndex, curFrame, curInsts,
                    curIPLimit, aborting, abortReq, calls >>

\* ------------------------------------------------------------ specification
\* one iteration of the dispatch loop
Step ==
    \/ RunOpConstant \/ RunOpNull \/ RunOpTrue \/ RunOpFalse \/ RunOpPop
    \/ RunOpAdd \/ RunOpSub \/ RunOpEqual
    \/ RunOpJumpFalsy \/ RunOpJump
    \/ RunOpSetGlobal \/ RunOpGetGlobal
    \/ RunOpCall \/ RunOpReturnValue \/ RunOpReturn
    \/ RunOpDefineLocal \/ RunOpSetLocal \/ RunOpGetLocal
    \/ RunOpClosure \/ RunOpGetFree \/ RunOpSetFree
    \/ RunOpAndJump \/ RunOpOrJump
    \/ RunOpArray \/ RunOpMap \/ RunOpImmutable
    \/ RunOpIndex \/ RunOpSliceIndex
    \/ RunOpSetSelGlobal \/ RunOpSetSelLocal \/ RunOpSetSelFree
    \/ RunOpGetBuiltinModule

Next == RunReset \/ RunClearAbort \/ Step \/ LoopExit \/ PostCheck \/ Abort

Spec == Init /\ [][Next]_vars

\* One VM run again and again by its host: Run, and after it has returned,
\* Run once more on the state the previous invocation left
NextRerun == Next \/ RunReturned

SpecRerun == Init /\ [][NextRerun]_vars


\* ------------------------------------------------------------ properties
\* An instruction is executed in this step (Abort is the only other action
\* enabled while the loop condition holds, and it sets the flag).
ExecStep == pc = "loop" /\ LoopCond /\ aborting' = 0
\* The value a global holds.
GlobalValue(i) == heap[globals[i]]
\* Run has returned what the check after the loop decided.
NonEmptyStackPanic == Panic("non empty stack after execution")
ReturnedFromCheck == pc = "done" /\ result \in {ReturnNil, NonEmptyStackPanic}
\* The loop stopped because it read the abort flag as set: the first
\* conjunct of its condition still holds.
StoppedByAbort == pc \in {"check", "done"} /\ ip < curIPLimit

\* C1: in every state reached while Run executes, 0 <= sp <= StackSize
\* (a step that would move sp past StackSize returns ErrStackOverflow
\* instead, OpCall's new frame included).
C1_SpWithinStack == 0 <= sp /\ sp <= StackSize

\* C2: framesIndex stays in 1 .. MaxFrames, and a Run that ends at an OpCall
\* needing a new frame while framesIndex = MaxFrames returns ErrStackOverflow.
C2_EndedAtFrameLimitCall ==
    /\ pc = "done"
    /\ result.kind \in {"error", "panic"}
    /\ framesIndex = MaxFrames
    /\ ip >= 1
    /\ Byte(ip - 1) = OpCall
C2_FrameOverflowIsError ==
    /\ 1 <= framesIndex /\ framesIndex <= MaxFrames
    /\ C2_EndedAtFrameLimitCall => result = ErrStackOverflow

\* C3: an Abort called at any moment after Run was entered is never lost
\* (the loop condition sees the flag set) and an infinite loop executes at
\* most MaxAfterAbort further instructions after it.
C3_AbortStopsRun ==
    abortReq =>
        /\ pc = "loop" => aborting = 1
        /\ prog = ProgSpin => sinceAbort <= MaxAfterAbort

\* C4: when the loop stopped because it read the abort flag as set, the
\* check after the loop is skipped and Run returns nil, whatever sp and
\* framesIndex are.
C4_AbortedRunReturnsNil ==
    /\ (pc = "check" /\ StoppedByAbort) => ~NonEmptyStack
    /\ (ReturnedFromCheck /\ StoppedByAbort) => result = ReturnNil
C4_Witness ==
    /\ ReturnedFromCheck /\ StoppedByAbort
    /\ result = ReturnNil
    /\ sp > 0 /\ framesIndex > 1

Exec(op) == ExecStep /\ Byte(ip + 1) = op
ExecOk(op) == Exec(op) /\ pc' = "loop"
\* The current frame's base pointer; the value a handle points at.
BasePointer == frames[curFrame].basePointer
\* Every cell that exists before the step holds the same value after it,
\* except the cell at address h.
CellsKeptBut(h) ==
    /\ Len(heap') >= Len(heap)
    /\ \A a \in DOMAIN heap : a # h => heap'[a] = heap[a]
\* This step returns from a callee to the frame at index cf.
ReturnsTo(cf) ==
    /\ ExecStep /\ Byte(ip + 1) \in {OpReturnValue, OpReturn}
    /\ pc' = "loop" /\ curFrame' = cf
\* This step is an OpCall that pushes a frame.
PushesFrame == ExecOk(OpCall) /\ framesIndex' = framesIndex + 1

\* C6: the condition of the claim, read off the state before the step: the
\* callee is the function of the current frame, called with its arity, and
\* OpCall is followed by OpReturnValue or by OpPop, OpReturn.
C6_SelfTailCall ==
    /\ Exec(OpCall)
    /\ sp >= 1 + Byte(ip + 2)
    /\ stack[sp - 1 - Byte(ip + 2)] # NilPtr
    /\ heap[stack[sp - 1 - Byte(ip + 2)]].t \in {"closure", "compiled-function"}
    /\ heap[stack[sp - 1 - Byte(ip + 2)]].n = frames[curFrame].fn
    /\ FnOf(frames[curFrame].fn).np = Byte(ip + 2)
    /\ \/ Byte(ip + 3) = OpReturnValue
       \/ (Byte(ip + 3) = OpPop /\ Byte(ip + 4) = OpReturn)
\* C6: a self tail call pushes no frame: framesIndex and the frames are
\* unchanged, the nArgs arguments become the frame's parameter slots, sp
\* drops by nArgs+1 and execution restarts at the frame's first instruction;
\* a tail recursion deeper than MaxFrames keeps framesIndex at its value at
\* the first (non-tail) call.
C6_TailCallReusesFrame ==
    [][ /\ C6_SelfTailCall =>
            /\ framesIndex' = framesIndex
            /\ curFrame' = curFrame
            /\ frames' = frames
            /\ curInsts' = curInsts
            /\ sp' = sp - (Byte(ip + 2) + 1)
            /\ ip' = -1
            /\ pc' = "loop"
            /\ \A p \in 0 .. Byte(ip + 2) - 1 :
                  stack'[BasePointer + p] = stack[sp - Byte(ip + 2) + p]
        /\ prog = ProgTailDeep => framesIndex' <= 2
        /\ prog = ProgClosureTail => framesIndex' <= 3
      ]_vars
C6_Witness ==
    /\ prog = ProgTailDeep
    /\ TailDepth > MaxFrames
    /\ pc = "done" /\ ~abortReq
    /\ result = ReturnNil
    /\ framesIndex = 1
    /\ GlobalValue(1) = IntV(0)

\* C7: OpClosure captures the handles themselves; a call of the closure
\* gives the frame those handles; OpSetFree writes into the cell the handle
\* names and OpGetFree / OpGetLocal push the handle, so the closure and the
\* enclosing local read and write one cell, also after the capturing frame
\* has returned (x captured at 10, body x = x + 1: the calls return 11, 12).
C7_SharedFreeSlot ==
    [][ /\ ExecOk(OpClosure) =>
            /\ stack'[sp' - 1] \notin DOMAIN heap
            /\ heap'[stack'[sp' - 1]].t = "closure"
            /\ Len(heap'[stack'[sp' - 1]].free) = Byte(ip + 4)
            /\ \A i \in 1 .. Byte(ip + 4) :
                  heap'[stack'[sp' - 1]].free[i] = stack[sp - Byte(ip + 4) + i - 1]
            /\ CellsKeptBut(NilPtr)
        /\ (PushesFrame /\ heap[stack[sp - 1 - Byte(ip + 2)]].t = "closure") =>
            frames'[curFrame'].freeVars = heap[stack[sp - 1 - Byte(ip + 2)]].free
        /\ ExecOk(OpSetFree) =>
            /\ heap'[frames[curFrame].freeVars[Byte(ip + 2) + 1]] = heap[stack[sp - 1]]
            /\ CellsKeptBut(frames[curFrame].freeVars[Byte(ip + 2) + 1])
            /\ Len(heap') = Len(heap)
            /\ frames' = frames
        /\ ExecOk(OpGetFree) =>
            /\ stack'[sp] = frames[curFrame].freeVars[Byte(ip + 2) + 1]
            /\ heap' = heap
        /\ ExecOk(OpGetLocal) =>
            /\ stack'[sp] = stack[BasePointer + Byte(ip + 2)]
            /\ heap' = heap
        \* mk's frame has returned; c() returns 11, then 12
        /\ (prog = ProgCounter /\ ReturnsTo(0) /\ ip' = 21) =>
            heap'[stack'[sp' - 1]] = IntV(11)
        /\ (prog = ProgCounter /\ ReturnsTo(0) /\ ip' = 29) =>
            heap'[stack'[sp' - 1]] = IntV(12)
        \* g: inc and x name one cell; a := x after inc() reads 11; x = 20 in g
        \* is what inc() reads next, and g returns the 21 it wrote
        /\ (prog = ProgShared /\ pc' = "loop" /\ curFrame' = 1 /\ ip' >= 16) =>
            heap'[stack'[frames'[1].basePointer + 2]].free
                = << stack'[frames'[1].basePointer] >>
        /\ (prog = ProgShared /\ pc' = "loop" /\ curFrame' = 2) =>
            frames'[2].freeVars = << stack'[frames'[1].basePointer] >>
        /\ (prog = ProgShared /\ ReturnsTo(0)) =>
            /\ heap[stack[sp - 1]] = IntV(21)
            /\ heap[stack[BasePointer + 3]] = IntV(11)
      ]_vars
C7_Witness ==
    /\ prog = ProgCounter
    /\ pc = "loop" /\ curFrame = 0 /\ ip = 29
    /\ sp = 1
    /\ heap[stack[0]] = IntV(12)

\* C8: OpSetLocal leaves the slot's handle and writes the popped value into
\* the cell it names (what every closure holding that handle reads);
\* OpDefineLocal binds the slot to a new cell holding a copy, so the cell the
\* slot named before and the cell the value was popped from stay apart from
\* the local.
C8_SetWritesThroughDefineRebinds ==
    [][ /\ ExecOk(OpSetLocal) =>
            /\ stack' = stack
            /\ heap'[stack[BasePointer + Byte(ip + 2)]] = heap[stack[sp - 1]]
            /\ CellsKeptBut(stack[BasePointer + Byte(ip + 2)])
            /\ Len(heap') = Len(heap)
        /\ ExecOk(OpDefineLocal) =>
            /\ stack'[BasePointer + Byte(ip + 2)] \notin DOMAIN heap
            /\ heap'[stack'[BasePointer + Byte(ip + 2)]] = heap[stack[sp - 1]]
            /\ CellsKeptBut(NilPtr)
        \* the closure made in the first invocation of f keeps reading y = 1
        \* after the tail call has run y := 0 in the same frame
        /\ (prog = ProgRebind /\ ReturnsTo(0)) =>
            heap'[stack'[sp' - 1]] = IntV(1)
        \* g: z := x keeps 10 and a := x keeps 11 while x goes on to 21
        /\ (prog = ProgShared /\ ReturnsTo(0)) =>
            /\ heap[stack[BasePointer]] = IntV(21)
            /\ heap[stack[BasePointer + 1]] = IntV(10)
      ]_vars
C8_Witness ==
    /\ prog = ProgRebind
    /\ pc = "done" /\ ~abortReq
    /\ result = ReturnNil
    /\ GlobalValue(1) = IntV(1)

\* C9: for the call that pushed the returning frame, made with the callee in
\* slot s: after OpReturnValue / OpReturn sp = s+1 and slot s holds the
\* handle that was on top of the callee's stack / Undefined; framesIndex
\* and the current frame are those before the call and the next instruction
\* is the one after OpCall's operand byte.
C9_ReturnRestoresCaller ==
    [][ (ExecStep /\ Byte(ip + 1) \in {OpReturnValue, OpReturn} /\ calls # << >>) =>
            LET c == calls[Len(calls)]
            IN  /\ pc' = "loop"
                /\ sp' = c.s + 1
                /\ Byte(ip + 1) = OpReturnValue =>
                      /\ stack'[c.s] = stack[sp - 1]
                      /\ heap'[stack'[c.s]] = heap[stack[sp - 1]]
                /\ Byte(ip + 1) = OpReturn =>
                      /\ stack'[c.s] = UndefinedPtr
                      /\ heap'[stack'[c.s]] = UndefinedValue
                /\ framesIndex' = c.fi
                /\ curFrame' = c.cf
                /\ curInsts' = FnOf(frames[c.cf].fn).insts
                /\ ip' = c.ip
                /\ curInsts'[c.ip] = OpCall
                /\ calls' = SubSeq(calls, 1, Len(calls) - 1)
      ]_vars
C9_Witness ==
    /\ prog = ProgShared
    /\ pc = "loop" /\ curFrame = 1 /\ ip = 20
    /\ framesIndex = 2
    /\ sp = BasePointer + 5
    /\ stack[sp - 1] = UndefinedPtr

\* C10: when OpCall pushes a frame for a Closure of arity N, the frame's
\* slots 0..N-1 are the N pushed argument handles and each slot
\* N..NumLocals-1 (inside the stack) reads as Undefined.
C10_NewFrameLocalsUndefined ==
    [][ (PushesFrame /\ heap[stack[sp - 1 - Byte(ip + 2)]].t = "closure") =>
            LET N == Byte(ip + 2)
                bp == frames'[curFrame'].basePointer
                callee == FnOf(heap[stack[sp - 1 - Byte(ip + 2)]].n)
            IN  /\ \A k \in 0 .. N - 1 : stack'[bp + k] = stack[sp - N + k]
                /\ \A k \in N .. callee.nl - 1 :
                      bp + k < StackSize =>
                          /\ stack'[bp + k] # NilPtr
                          /\ heap'[stack'[bp + k]] = UndefinedValue
      ]_vars


\* ------------------------------------------------------------ constants
\* C11: at every step each entry of the constants pool holds the value it
\* held when Run started.
C11_ConstantsUnchanged ==
    \A i \in 0 .. Len(prog.consts) - 1 : heap[ConstPtr(i)] = prog.consts[i + 1]

\* ------------------------------------------------------------ errors
\* The opcodes C12 names.
PositionedOpcodes ==
    { OpCall, OpClosure, OpSetSelGlobal, OpSetSelLocal, OpSetSelFree,
      OpGetBuiltinModule }
\* C12: when one of OpCall, OpClosure, OpSetSelGlobal, OpSetSelLocal,
\* OpSetSelFree, OpGetBuiltinModule fails with a positioned error, the source
\* position is looked up at the index of the failing opcode byte itself.
C12_PositionOfFailingOpcode ==
    [][ ( /\ ExecStep
          /\ Byte(ip + 1) \in PositionedOpcodes
          /\ pc' = "done"
          /\ result'.located )
        => result'.pos = ip + 1
      ]_vars

\* C13: every error Run returns carries a source position, stack overflow
\* included.
C13_EveryErrorHasPosition ==
    (pc = "done" /\ result.kind = "error") => result.located

\* ------------------------------------------------------------ selectors
SetSelOpcodes == { OpSetSelGlobal, OpSetSelLocal, OpSetSelFree }
\* The handle of the target variable and the selector count k of the
\* selector assignment about to run.
C14_Target ==
    IF Byte(ip + 1) = OpSetSelGlobal THEN globals[Operand16(ip + 2)]
    ELSE IF Byte(ip + 1) = OpSetSelLocal THEN stack[BasePointer + Byte(ip + 2)]
    ELSE frames[curFrame].freeVars[Byte(ip + 2) + 1]
C14_NumSel == IF Byte(ip + 1) = OpSetSelGlobal THEN Byte(ip + 4) ELSE Byte(ip + 3)
\* The j-th selector counted from the top of the stack: 1 is the last pushed,
\* k the first pushed.
C14_Sel(j) == heap[stack[sp - j]]
\* The container reached from cur by IndexGet with selectors j .. k - 1, or
\* the failure of that walk.
RECURSIVE C14_Chain(_, _, _)
C14_Chain(cur, j, k) ==
    IF j >= k THEN [ok |-> TRUE, val |-> cur]
    ELSE IF ~Indexable(cur) THEN [ok |-> FALSE, val |-> cur]
    ELSE IF IndexGetErr(cur, C14_Sel(j)) # "" THEN [ok |-> FALSE, val |-> cur]
    ELSE C14_Chain(IndexGet(heap, cur, C14_Sel(j)), j + 1, k)

\* C14: a selector assignment with k >= 1 selectors removes k + 1 slots; it
\* follows the selectors from the last pushed down to the second pushed with
\* IndexGet, starting at the target variable, and performs one IndexSet on
\* the container reached, with the first pushed selector as key and the value
\* below the selectors; if a container on the way is not Indexable, an
\* IndexGet fails or the container reached is not IndexAssignable, an error
\* is returned and nothing is assigned.
C14_SelectorAssignment ==
    [][ ( /\ ExecStep
          /\ Byte(ip + 1) \in SetSelOpcodes
          /\ C14_NumSel >= 1
          /\ sp >= C14_NumSel + 1
          /\ C14_Target # NilPtr
          /\ \A j \in 1 .. C14_NumSel + 1 : stack[sp - j] # NilPtr )
        => LET k == C14_NumSel
               leaf == C14_Chain(heap[C14_Target], 1, k)
           IN  /\ sp' = sp - (k + 1)
               /\ IF ~leaf.ok \/ ~IndexAssignable(leaf.val)
                  THEN pc' = "done" /\ result'.kind = "error" /\ heap' = heap
                  ELSE IndexSetErr(leaf.val, C14_Sel(k)) = ""
                       => /\ pc' = "loop"
                          /\ heap' = IndexSet(heap, leaf.val, C14_Sel(k),
                                              heap[stack[sp - k - 1]])
      ]_vars
\* ProgSelChain has run m.a.b[1] = 7 (three selectors) and m.x = 7 (one) and
\* m.x[0] = 7 has failed on the Int it reached.
C14_Witness ==
    /\ prog = ProgSelChain
    /\ pc = "done"
    /\ result = ErrorAt(77, "not index-assignable")
    /\ sp = 0
    /\ LET m == heap[GlobalValue(0).m].kv
           ma == heap[m[<< "a" >>].m].kv
       IN  /\ Elems(heap, ma[<< "b" >>]) = << IntV(1), IntV(7) >>
           /\ m[<< "x" >>] = IntV(7)

\* ------------------------------------------------------------ short circuit
\* C15: OpAndJump on a falsy top of stack jumps and keeps the value (sp
\* unchanged) and on a truthy one pops it and continues; OpOrJump is the
\* dual. So A && B has the value of A and never executes B when A is falsy
\* and the value of B otherwise, and dually for A || B.
C15_ShortCircuit ==
    [][ /\ (Exec(OpAndJump) /\ sp >= 1 /\ stack[sp - 1] # NilPtr)
             => /\ pc' = "loop" /\ stack' = stack
                /\ IF IsFalsy(heap[stack[sp - 1]])
                   THEN sp' = sp /\ ip' + 1 = Operand16(ip + 2)
                   ELSE sp' = sp - 1 /\ ip' = ip + 3
        /\ (Exec(OpOrJump) /\ sp >= 1 /\ stack[sp - 1] # NilPtr)
             => /\ pc' = "loop" /\ stack' = stack
                /\ IF ~IsFalsy(heap[stack[sp - 1]])
                   THEN sp' = sp /\ ip' + 1 = Operand16(ip + 2)
                   ELSE sp' = sp - 1 /\ ip' = ip + 3
        /\ (prog = ProgAndOr /\ ExecStep /\ Byte(ip + 1) = OpSetGlobal)
             => heap[stack[sp - 1]] =
                    IF ip + 1 = 9 THEN IntV(0)         \* 0 && 5
                    ELSE IF ip + 1 = 21 THEN IntV(5)   \* 3 && 5
                    ELSE IF ip + 1 = 33 THEN IntV(5)   \* 0 || 5
                    ELSE IntV(3)                       \* 3 || 5
      ]_vars
\* ProgAndOr has run: a = 0, b = 5, c = 5, d = 3.
C15_Witness ==
    /\ prog = ProgAndOr
    /\ pc = "done" /\ result = ReturnNil /\ ~abortReq
    /\ GlobalValue(0) = IntV(0) /\ GlobalValue(1) = IntV(5)
    /\ GlobalValue(2) = IntV(5) /\ GlobalValue(3) = IntV(3)

\* ------------------------------------------------------------ slices
\* A run of ProgSplit(i) has ended and was not aborted; its i.
SplitDone == prog.name = "split" /\ pc = "done" /\ ~abortReq
SplitAt == prog.consts[1].n
\* The elements of the array a global holds.
GlobalElems(g) == Elems(heap, GlobalValue(g))

\* C16 as stated: for every Array a of length len and every integer i in
\* [-len, len], a[i:len] and a[0:i] both succeed and a[0:i] followed by
\* a[i:len] equals a.
C16_SplitConcat ==
    SplitDone =>
        /\ result = ReturnNil
        /\ GlobalElems(2) \o GlobalElems(1) = GlobalElems(0)
\* C16, amended: for i in [0, len] both slices succeed and a[0:i] followed by
\* a[i:len] equals a; for i in [-len, -1] a[i:len] succeeds and equals a and
\* a[0:i] fails with 'invalid slice index', its low bound 0 being greater
\* than its high bound i.
C16_SplitConcatFromZero ==
    SplitDone =>
        IF SplitAt >= 0
        THEN /\ result = ReturnNil
             /\ GlobalElems(2) \o GlobalElems(1) = GlobalElems(0)
             /\ Len(GlobalElems(2)) = SplitAt
        ELSE /\ result.kind = "error" /\ result.msg = "invalid slice index"
             /\ GlobalElems(1) = GlobalElems(0)
             /\ globals[2] = NilPtr
\* a = [1, ..., MaxLen] has been split at 1.
C16_Witness ==
    /\ SplitDone /\ SplitAt = 1
    /\ result = ReturnNil
    /\ GlobalElems(2) = << IntV(1) >>
    /\ GlobalElems(1) = SubSeq(Ints, 2, MaxLen)
    /\ GlobalElems(0) = Ints

Min(a, b) == IF a <= b THEN a ELSE b
Max(a, b) == IF a >= b THEN a ELSE b
\* A slice bound is an Int or Undefined; what it decodes to, Undefined
\* standing for dflt.
IsSliceBound(v) == v.t \in {"int", "undefined"}
DecodedBound(v, dflt) == IF v.t = "undefined" THEN dflt ELSE v.n

\* C17: OpSliceIndex on an Array, ImmutableArray or String of length n with
\* Int or Undefined bounds (Undefined low is 0, Undefined high is n) fails
\* with 'invalid slice index' exactly when the decoded low is greater than
\* the decoded high, compared before clamping; otherwise it pops three
\* operands and pushes the elements [min(max(low,0),n), min(max(high,0),n));
\* a bound that is neither Int nor Undefined fails with 'invalid slice index
\* type'.
C17_SliceClamps ==
    [][ ( /\ Exec(OpSliceIndex)
          /\ sp >= 3
          /\ \A j \in 1 .. 3 : stack[sp - j] # NilPtr
          /\ heap[stack[sp - 3]].t \in {"array", "immutable-array", "string"} )
        => LET left == heap[stack[sp - 3]]
               low == heap[stack[sp - 2]]
               high == heap[stack[sp - 1]]
               n == LenOf(left)
               lo == DecodedBound(low, 0)
               hi == DecodedBound(high, n)
           IN  IF ~IsSliceBound(low) \/ ~IsSliceBound(high)
               THEN /\ pc' = "done"
                    /\ result' = ErrorAt(ip + 1, "invalid slice index type")
               ELSE IF lo > hi
               THEN /\ pc' = "done"
                    /\ result' = ErrorAt(ip + 1, "invalid slice index")
               ELSE /\ pc' = "loop"
                    /\ sp' = sp - 3 + 1
                    /\ heap'[stack'[sp' - 1]].t =
                           IF left.t = "string" THEN "string" ELSE "array"
                    /\ Elems(heap', heap'[stack'[sp' - 1]]) =
                           SubSeq(Elems(heap, left),
                                  Min(Max(lo, 0), n) + 1, Min(Max(hi, 0), n))
      ]_vars
\* ProgHello has run: "hello"[2:100] = "llo", "hello"[-5:2] = "he" and
\* "hello"[:] = "hello".
C17_Witness ==
    /\ prog = ProgHello
    /\ pc = "done" /\ result = ReturnNil /\ ~abortReq
    /\ GlobalValue(1) = StringV(<< "l", "l", "o" >>)
    /\ GlobalValue(2) = StringV(<< "h", "e" >>)
    /\ GlobalValue(3) = GlobalValue(0)

\* ------------------------------------------------------------ immutables
\* C18: the elements observed through an ImmutableArray or an ImmutableMap
\* never change after its creation: no step, an index assignment on the
\* Array sliced from an ImmutableArray or on the Array / Map that OpImmutable
\* was applied to included, changes what indexing the immutable value returns.
C18_ImmutableElementsFixed ==
    [][ \A a \in DOMAIN heap :
            /\ heap[a].t = "immutable-array"
                 => Elems(heap', heap[a]) = Elems(heap, heap[a])
            /\ heap[a].t = "immutable-map"
                 => heap'[heap[a].m].kv = heap[heap[a].m].kv
      ]_vars

\* ------------------------------------------------------------ frame balance
\* C19: when Run returns nil and was not aborted, every frame pushed by
\* OpCall has been popped by OpReturn / OpReturnValue: as many pops as
\* pushes, and framesIndex = 1 (the programs run are well formed: every
\* function body ends with a return).
C19_FramesBalanced ==
    (pc = "done" /\ result = ReturnNil /\ ~abortReq)
        => /\ framesIndex = 1
           /\ curFrame = 0
           /\ calls = << >>
\* ProgSelLocal has run: f called g, g returned with OpReturn and f with
\* OpReturnValue.
C19_Witness ==
    /\ prog = ProgSelLocal
    /\ pc = "done" /\ result = ReturnNil /\ ~abortReq
    /\ framesIndex = 1
    /\ GlobalValue(1) = IntV(4)
    /\ frames[1].fn = 2 /\ frames[2].fn = 1

\* ------------------------------------------------------------ globals
\* C20: a VM constructed without a globals array has GlobalsSize slots each
\* holding Undefined: before Run every slot holds Undefined, and at any time
\* a slot that was never assigned holds a value (Undefined) that OpGetGlobal
\* can push and Globals() can show.
C20_GlobalsStartUndefined ==
    /\ pc = "idle" =>
           \A i \in 0 .. GlobalsSize - 1 :
               globals[i] # NilPtr /\ heap[globals[i]] = UndefinedValue
    /\ \A i \in 0 .. GlobalsSize - 1 : globals[i] # NilPtr

\* ------------------------------------------------------------ tail calls
\* C21: the value the outermost call of a self-recursive function returns to
\* its caller is the one it returns when every call pushes a frame: for a
\* call followed by OpReturnValue the value of the innermost call
\* (ProgTailDeep: 0), and for a call followed by OpPop and OpReturn, whose
\* result is discarded, Undefined (ProgTailDiscard).
C21_TailCallSameValue ==
    (pc = "done" /\ result = ReturnNil /\ ~abortReq)
        => /\ prog = ProgTailDeep => GlobalValue(1) = IntV(0)
           /\ prog = ProgTailDiscard => GlobalValue(1) = UndefinedValue

\* ------------------------------------------------------------ free variables
\* C22: the body of a Closure runs with the free-variable slots of the
\* Closure value that was called: after every OpCall on a Closure that
\* goes on, a tail call on another Closure of the same compiled function
\* included, the current frame's free variables are the callee's.
C22_FreeVarsOfCalledClosure ==
    [][ ( /\ Exec(OpCall)
          /\ sp >= 1 + Byte(ip + 2)
          /\ stack[sp - 1 - Byte(ip + 2)] # NilPtr
          /\ heap[stack[sp - 1 - Byte(ip + 2)]].t = "closure"
          /\ pc' = "loop" )
        => frames'[curFrame'].freeVars = heap[stack[sp - 1 - Byte(ip + 2)]].free
      ]_vars

\* ------------------------------------------------------------ parameters
\* The cells the variables outside the current frame refer to: the globals,
\* the stack slots below the frame's base pointer, and the shared true,
\* false and undefined.
OutsideCells ==
    ( { globals[i] : i \in 0 .. GlobalsSize - 1 }
        \cup { stack[i] : i \in 0 .. BasePointer - 1 }
        \cup { TruePtr, FalsePtr, UndefinedPtr } ) \ { NilPtr }
\* C23: assigning to a parameter inside a callee (OpSetLocal on a parameter
\* slot) changes no variable of the caller: every global, every stack slot
\* of the callers, and each of true, false and undefined holds the same
\* value after the assignment as before it.
C23_ParameterAssignmentIsLocal ==
    [][ ( /\ Exec(OpSetLocal)
          /\ curFrame > 0
          /\ Byte(ip + 2) < FnOf(frames[curFrame].fn).np )
        => \A c \in OutsideCells : heap'[c] = heap[c]
      ]_vars

\* ------------------------------------------------------------ slice operands
\* C24: OpSliceIndex on a container that is not an Array, ImmutableArray,
\* String or Bytes makes Run return an error, and every OpSliceIndex either
\* returns an error or has a net stack effect of exactly -2.
C24_SliceErrorOrNetMinusTwo ==
    [][ ( /\ Exec(OpSliceIndex)
          /\ sp >= 3
          /\ \A j \in 1 .. 3 : stack[sp - j] # NilPtr )
        => /\ \/ pc' = "done" /\ result'.kind = "error"
              \/ pc' = "loop" /\ sp' = sp - 2
           /\ heap[stack[sp - 3]].t \notin {"array", "immutable-array", "string"}
                  => pc' = "done" /\ result'.kind = "error"
      ]_vars

\* ------------------------------------------------------------ map literals
\* The OpMap about to run: its operand, the slot of its first key, the key
\* and the value of its j-th pair (from 0), and the map it pushes.
C25_Operand == Operand16(ip + 2)
C25_Key(j) == heap[stack[sp - C25_Operand + 2 * j]]
C25_Value(j) == heap[stack[sp - C25_Operand + 2 * j + 1]]
C25_Pushed == heap'[heap'[stack'[sp' - 1]].m].kv
C25_BuildsMap ==
    /\ Exec(OpMap)
    /\ sp >= C25_Operand
    /\ \A i \in 1 .. C25_Operand : stack[sp - i] # NilPtr
    /\ pc' = "loop"

\* C25 as stated: OpMap with operand n pops 2n stack slots and pushes one
\* Map, a net effect on sp of -2n + 1.
C25_MapPopsTwiceOperand ==
    [][ C25_BuildsMap => sp' = sp - 2 * C25_Operand + 1 ]_vars
\* C25, amended: OpMap with an even operand n pops n stack slots, that is
\* n / 2 key/value pairs (key below its value, keys are Strings), and pushes
\* one Map holding those pairs, a later pair replacing an earlier one with
\* the same key: a net effect on sp of -n + 1.
C25_MapPopsOperandSlots ==
    [][ (C25_BuildsMap /\ C25_Operand % 2 = 0)
        => LET pairs == 0 .. C25_Operand \div 2 - 1
           IN  /\ sp' = sp - C25_Operand + 1
               /\ heap'[stack'[sp' - 1]].t = "map"
               /\ DOMAIN C25_Pushed = { C25_Key(j).s : j \in pairs }
               /\ \A j \in pairs :
                      (\A j2 \in pairs : j2 > j => C25_Key(j2) # C25_Key(j))
                          => C25_Pushed[C25_Key(j).s] = C25_Value(j)
      ]_vars
\* ProgMapDup has built {a: 1, b: 2, a: 3} with OpMap 6 and read m.a.
C25_Witness ==
    /\ prog = ProgMapDup
    /\ pc = "done" /\ result = ReturnNil /\ ~abortReq
    /\ DOMAIN heap[GlobalValue(0).m].kv = { << "a" >>, << "b" >> }
    /\ heap[GlobalValue(0).m].kv[<< "b" >>] = IntV(2)
    /\ GlobalValue(1) = IntV(3)

\* ------------------------------------------------------------ run again
\* Run has executed its reset block and is about to test the loop condition
\* for the first time.
RunStarts == pc = "entered" /\ pc' = "loop"
\* The fields Run's reset block assigns, as NewVM set them.
ExecutionStateReset ==
    /\ sp = 0
    /\ framesIndex = 1
    /\ ip = -1
    /\ curFrame = 0
    /\ frames[0].fn = 0
    /\ curInsts = prog.main
    /\ curIPLimit = Len(prog.main) - 1
    /\ aborting = 0
\* The state outside the globals array that a program can read is as NewVM
\* built it: the constants pool and the true / false / undefined singletons.
OnlyGlobalsCarriedOver ==
    /\ \A i \in 0 .. Len(prog.consts) - 1 : heap[ConstPtr(i)] = prog.consts[i + 1]
    /\ heap[TruePtr] = TrueValue
    /\ heap[FalsePtr] = FalseValue
    /\ heap[UndefinedPtr] = UndefinedValue
\* C26: every invocation of Run, the first and every later one, enters its
\* loop with sp = 0, framesIndex = 1, ip = -1, frame 0 and the main
\* function's instructions current and the abort flag cleared (also when
\* Abort was called before Run), and with nothing but the globals array
\* changed by the invocations before it.
C26_RunStartsFromSameState ==
    [][ RunStarts => (ExecutionStateReset /\ OnlyGlobalsCarriedOver)' ]_vars
\* The part of C26 about the fields of the reset block alone.
C26_ResetBlock ==
    [][ RunStarts => ExecutionStateReset' ]_vars
\* A second Run has entered its loop after the first one failed inside a
\* called function.
C26_SecondRunAfterFailure ==
    /\ runs = 2 /\ pc = "loop" /\ ip = -1
    /\ result.kind = "error" /\ frames[1].fn # 0
\* The counter program run twice to completion: b, 12 after the first Run, is
\* 14 after the second.
C26_CounterSecondRun ==
    /\ prog = ProgCounter /\ runs = 2 /\ pc = "done" /\ ~abortReq
    /\ result = ReturnNil
    /\ GlobalValue(3) = IntV(14)

\* ------------------------------------------------------------ cached state
\* The top of an iteration of the dispatch loop.
LoopTop == pc = "loop"
\* curFrame, curInsts and curIPLimit are those of the topmost frame.
CacheMatchesFrames ==
    /\ framesIndex >= 1
    /\ curFrame = framesIndex - 1
    /\ curInsts = FnOf(frames[curFrame].fn).insts
    /\ curIPLimit = Len(curInsts) - 1
\* Every frame below the current one holds the ip of the operand of the OpCall
\* at which it was suspended.
SuspendedIps ==
    /\ Len(calls) = curFrame
    /\ \A j \in 0 .. curFrame - 1 :
          /\ calls[j + 1].cf = j
          /\ frames[j].ip = calls[j + 1].ip
          /\ frames[j].ip >= 1
          /\ FnOf(frames[j].fn).insts[frames[j].ip] = OpCall
\* Base pointers do not decrease from frame 0 upward; the current one is at
\* most sp.
BasePointersOrdered ==
    /\ \A j \in 0 .. curFrame - 1 :
          frames[j].basePointer <= frames[j + 1].basePointer
    /\ frames[curFrame].basePointer <= sp
\* C27: at the top of every iteration of the dispatch loop curFrame is
\* frames[framesIndex-1], curInsts its function's instructions, curIPLimit =
\* len(curInsts) - 1, every frame below holds the ip at which it was
\* suspended, base pointers do not decrease from frame 0 upward and the
\* current frame's base pointer is at most sp.
C27_LoopTopConsistent ==
    LoopTop => (CacheMatchesFrames /\ SuspendedIps /\ BasePointersOrdered)
\* The parts of C27 about the cached fields and the saved ips alone.
C27_CachedFrame ==
    LoopTop => (CacheMatchesFrames /\ SuspendedIps)
\* OpCall (new frame and tail call), OpReturn and OpReturnValue keep the
\* base pointers ordered.
C27_CallsPreserveOrder ==
    [][ ( /\ LoopTop /\ BasePointersOrdered
          /\ ExecStep
          /\ Byte(ip + 1) \in { OpCall, OpReturn, OpReturnValue }
          /\ pc' = "loop" ) => BasePointersOrdered' ]_vars

====
